---- MODULE Spec2Model ----
(***************************************************************************)
(* A model of orbax's PyTreeCheckpointHandler: saving a key/value tree to  *)
(* a checkpoint directory and restoring it, with optional transforms.      *)
(*                                                                         *)
(* Strings are sequences of one-character strings, so that joining key     *)
(* segments with '.' or '/' and matching them against patterns is computed *)
(* the way the code computes it.  A tree is a function from key paths      *)
(* (sequences of segments) to leaves.                                      *)
(***************************************************************************)
EXTENDS Integers, Sequences, FiniteSets, TLC

(***************************************************************************)
(* Bounds of the model.                                                    *)
(***************************************************************************)
\* leaf payloads are 1..MaxVal
MaxVal == 2
\* restore calls made on one handler
MaxCalls == 1
\* number of cooperating processes of a multi-process save
NumProcesses == 2
\* restore calls made one after the other on one handler that share nothing
CallsInARow == 2
\* the concurrent_gb the handler is constructed with
ConcurrentGb == 1
\* the declared size of a leaf of payload 1, in bytes
LeafBytes == 400000000

(***************************************************************************)
(* Key paths.                                                              *)
(***************************************************************************)
SegA == <<"a">>
SegB == <<"b">>
SegC == <<"c">>
SegADotB == <<"a", ".", "b">>

KA == <<SegA>>
KAB == <<SegA, SegB>>
KADotB == <<SegADotB>>
KB == <<SegB>>
KC == <<SegC>>

\* The key paths of the model, in the order in which jax traverses a tree
\* of nested dicts (depth first, each dict's keys sorted).
TreeOrder == <<KA, KAB, KADotB, KB, KC>>

Range(s) == {s[i] : i \in 1..Len(s)}

AllKeys == Range(TreeOrder)

IsPrefix(p, k) == Len(p) < Len(k) /\ SubSeq(k, 1, Len(p)) = p

\* A set of key paths is the set of leaves of some tree: no leaf lies
\* below another leaf.
IsTreeDomain(D) == \A p \in D : \A k \in D : ~IsPrefix(p, k)

RECURSIVE Join(_, _)
Join(key, sep) ==
    IF Len(key) = 0 THEN <<>>
    ELSE IF Len(key) = 1 THEN key[1]
    ELSE key[1] \o <<sep>> \o Join(Tail(key), sep)

_keystr(key) == Join(key, "/")

_param_name_from_keypath(keypath) == Join(keypath, ".")

\* The keys of a tree in traversal order.
OrderedKeys(D) == SelectSeq(TreeOrder, LAMBDA k : k \in D)

(***************************************************************************)
(* Leaves.                                                                 *)
(***************************************************************************)
NoDtype == "None"

\* A leaf: its runtime type (kind), payload and dtype.  A placeholder string
\* carries the name of an individually stored leaf (ref); meta is the type
\* metadata recorded with it, from which a restore without restore_type
\* picks the codec.
Value(kind, val) ==
    [kind |-> kind, val |-> val, dtype |-> "native", ref |-> <<>>, meta |-> kind]

EmptyNode == Value("empty", 0)

NoneValue == Value("none", 0)

leaf_placeholder(name) ==
    [kind |-> "placeholder", val |-> 0, dtype |-> "native", ref |-> name,
     meta |-> "None"]

leaf_is_placeholder(leaf) == leaf.kind = "placeholder"

name_from_leaf_placeholder(leaf) == leaf.ref

is_scalar(x) == x.kind = "int"

\* an empty container or None: a node without leaves
is_supported_empty_aggregation_type(x) == x.kind \in {"empty", "none"}

\* "sharded" is a jax.Array that is not fully replicated
is_supported_aggregation_type(x) ==
    x.kind \in {"int", "ndarray", "sharded", "placeholder", "empty", "none"}

has_type_handler(kind) == kind \in {"int", "ndarray", "sharded", "str"}

get_type_handler(kind) ==
    CASE kind = "int" -> "ScalarHandler"
      [] kind = "ndarray" -> "NumpyHandler"
      [] kind = "sharded" -> "ArrayHandler"
      [] kind = "str" -> "StringHandler"
      [] OTHER -> "unregistered"

_try_array_cast(arr, dtype) ==
    IF dtype # NoDtype
    THEN IF is_scalar(arr) THEN [arr EXCEPT !.dtype = dtype]
         ELSE IF arr.kind = "ndarray" THEN [arr EXCEPT !.dtype = dtype]
         ELSE arr
    ELSE arr

(***************************************************************************)
(* SaveArgs, RestoreArgs, ParamInfo.                                       *)
(***************************************************************************)
SaveArgs(aggregate, dtype) == [isargs |-> TRUE, aggregate |-> aggregate, dtype |-> dtype]

NoSaveArgs == [isargs |-> FALSE, aggregate |-> FALSE, dtype |-> NoDtype]

_maybe_set_default_save_args(value, args) ==
    IF args.isargs THEN args
    ELSE SaveArgs(~has_type_handler(value.kind), NoDtype)

RestoreArgs(restore_type, dtype) == [restore_type |-> restore_type, dtype |-> dtype]

DefaultRestoreArgs == RestoreArgs("None", NoDtype)

NullPath == <<>>

Directory == <<"d">>

MissingDirectory == <<"m">>

PathJoin(dir, name) == dir \o <<"/">> \o name

ParamInfo(name, path, skip, limiter) ==
    [isinfo |-> TRUE, name |-> name, path |-> path,
     skip_deserialize |-> skip, byte_limiter |-> limiter]

(***************************************************************************)
(* Batched requests (save and restore).                                    *)
(***************************************************************************)
\* One request per codec.  keys is a ghost field: the tree position each
\* slot was built from.
_BatchRequest(handler, values, infos, args, keys) ==
    [handler |-> handler, values |-> values, infos |-> infos, args |-> args,
     keys |-> keys]

IsRestoreArgs(arg) == "restore_type" \in DOMAIN arg

\* The codec of a restore: the one of restore_type, or, without one, the
\* one of the type recorded with the saved leaf.
RestoreHandler(arg, value) ==
    IF arg.restore_type # "None" THEN get_type_handler(arg.restore_type)
    ELSE get_type_handler(value.meta)

HandlerIndex(grouped, handler) ==
    IF \E i \in 1..Len(grouped) : grouped[i].handler = handler
    THEN CHOOSE i \in 1..Len(grouped) : grouped[i].handler = handler
    ELSE 0

\* A variant that opens a request for every value.
_group_value_ungrouped(grouped, key, info, value, arg) ==
    IF info.skip_deserialize THEN grouped
    ELSE Append(grouped,
                _BatchRequest(IF IsRestoreArgs(arg) THEN RestoreHandler(arg, value)
                              ELSE get_type_handler(value.kind),
                              <<value>>, <<info>>, <<arg>>, <<key>>))

_group_value(grouped, key, info, value, arg) ==
    IF info.skip_deserialize THEN grouped
    ELSE LET handler == IF IsRestoreArgs(arg) THEN RestoreHandler(arg, value)
                        ELSE get_type_handler(value.kind)
             i == HandlerIndex(grouped, handler)
             request == IF i = 0
                        THEN _BatchRequest(handler, <<>>, <<>>, <<>>, <<>>)
                        ELSE grouped[i]
             extended == _BatchRequest(handler,
                                       Append(request.values, value),
                                       Append(request.infos, info),
                                       Append(request.args, arg),
                                       Append(request.keys, key))
         IN IF i = 0 THEN Append(grouped, extended)
            ELSE [grouped EXCEPT ![i] = extended]

RECURSIVE GroupAll(_, _, _, _, _)
GroupAll(keys, tree, param_infos, args, grouped) ==
    IF keys = <<>> THEN grouped
    ELSE LET k == Head(keys)
         IN GroupAll(Tail(keys), tree, param_infos, args,
                     IF param_infos[k].isinfo
                     THEN _group_value(grouped, k, param_infos[k], tree[k], args[k])
                     ELSE grouped)

\* tree_map over (param_infos, tree, args) in traversal order.
_batched_serialization_requests(tree, param_infos, args) ==
    GroupAll(OrderedKeys(DOMAIN param_infos), tree, param_infos, args, <<>>)

\* The leaves of the requests, as <<request index, slot index>> pairs.
Slots(requests) ==
    UNION {{<<r, i>> : i \in 1..Len(requests[r].infos)} : r \in 1..Len(requests)}

(***************************************************************************)
(* Save.                                                                   *)
(***************************************************************************)
_get_param_names(item) == [k \in DOMAIN item |-> _param_name_from_keypath(k)]

\* A variant that marks no leaf as aggregated.
_param_info_never_skips(directory, name, args) == ParamInfo(name, PathJoin(directory, name), FALSE, 0)

\* A variant that gives an aggregated leaf no path.
_param_info_aggregated_without_path(directory, name, args) ==
    ParamInfo(name, IF args.aggregate THEN NullPath ELSE PathJoin(directory, name),
              args.aggregate, 0)

\* lines 530-535
_param_info(directory, name, args) ==
    ParamInfo(name, PathJoin(directory, name), args.aggregate, 0)

_get_param_infos(item, directory, save_args) ==
    [k \in DOMAIN item |-> _param_info(directory, _get_param_names(item)[k], save_args[k])]

\* A variant that is true as soon as one leaf is aggregated.
all_params_aggregated_any(save_args) == \E k \in DOMAIN save_args : save_args[k].aggregate

all_params_aggregated(save_args) == \A k \in DOMAIN save_args : save_args[k].aggregate

\* A variant in which every process creates the directory.
_create_param_save_dir_any_process(param_info, args, process_index) ==
    IF param_info.path = NullPath \/ args.aggregate THEN {}
    ELSE {param_info.path}

\* The directories one process creates for one leaf.
_create_param_save_dir(param_info, args, process_index) ==
    IF param_info.path = NullPath \/ args.aggregate THEN {}
    ELSE IF process_index = 0 THEN {param_info.path}
    ELSE {}

\* A variant that lets every array into the aggregate file.
replication_violation_unchecked(arg, value) == FALSE

\* lines 340-344: an aggregated jax.Array that is not fully replicated
replication_violation(arg, value) == arg.aggregate /\ value.kind = "sharded"

\* A variant that hands every aggregated value to the aggregate file.
_get_leaf_for_aggregation_keeps_value(param_info, arg, value) ==
    IF arg.aggregate THEN _try_array_cast(value, arg.dtype)
    ELSE [leaf_placeholder(param_info.name) EXCEPT !.meta = value.kind]

\* The value for the aggregate file, where line 342 does not raise.
_get_leaf_for_aggregation(param_info, arg, value) ==
    IF arg.aggregate
    THEN _try_array_cast(IF is_supported_aggregation_type(value) THEN value
                         ELSE NoneValue,
                         arg.dtype)
    ELSE [leaf_placeholder(param_info.name) EXCEPT !.meta = value.kind]

_get_tree_for_aggregation(param_infos, save_args, item) ==
    [k \in DOMAIN item |-> _get_leaf_for_aggregation(param_infos[k], save_args[k], item[k])]

\* What async_save computes for one process, before any I/O: the defaulted
\* save_args, the ParamInfos, the batched requests and the aggregate tree.
SavePlan(directory, item, save_args_in) ==
    LET save_args == [k \in DOMAIN item |->
                         _maybe_set_default_save_args(item[k], save_args_in[k])]
        param_infos == _get_param_infos(item, directory, save_args)
        requests == _batched_serialization_requests(item, param_infos, save_args)
    IN [empty_item |-> DOMAIN item = {},
        save_args |-> save_args,
        param_infos |-> param_infos,
        all_params_aggregated |-> all_params_aggregated(save_args),
        batch_requests |-> requests,
        unregistered |-> \E r \in 1..Len(requests) : requests[r].handler = "unregistered",
        not_replicated |-> \E k \in DOMAIN item :
                              replication_violation(save_args[k], item[k]),
        ser_item |-> _get_tree_for_aggregation(param_infos, save_args, item)]

\* A variant that opens no directory-creation phase.
creates_param_dirs_never(use_ocdbt, all_aggregated) == FALSE

\* line 592: whether async_save creates the leaf directories and then syncs
creates_param_dirs(use_ocdbt, all_aggregated) == ~use_ocdbt /\ ~all_aggregated

\* The directories process process_index creates (async_save, lines 592-600).
CreatedDirs(plan, process_index) ==
    UNION {_create_param_save_dir(plan.param_infos[k], plan.save_args[k], process_index) :
           k \in DOMAIN plan.param_infos}

\* TypeHandler.serialize of one slot: the value, cast to the dtype asked for,
\* is written at the slot's path.
SerializedValue(requests, slot) ==
    _try_array_cast(requests[slot[1]].values[slot[2]], requests[slot[1]].args[slot[2]].dtype)

SerializedPath(requests, slot) == requests[slot[1]].infos[slot[2]].path

WrittenPaths(requests) == {SerializedPath(requests, s) : s \in Slots(requests)}

\* The files left on disk by the writes of requests: two writes of the same
\* path race, and either value may be the one that stays.
FileOutcomes(requests) ==
    LET paths == WrittenPaths(requests)
        winners == {w \in [paths -> Slots(requests)] :
                       \A p \in paths : SerializedPath(requests, w[p]) = p}
    IN {[p \in paths |-> SerializedValue(requests, w[p])] : w \in winners}

(***************************************************************************)
(* Restore: building the parameters.                                       *)
(***************************************************************************)
\* An optional argument: None, or Some(value).
None == [some |-> FALSE, v |-> <<>>]

Some(v) == [some |-> TRUE, v |-> v]

\* What stands in a tree of ParamInfo or RestoreArgs at an empty container.
EmptyInfo ==
    [isinfo |-> FALSE, name |-> <<>>, path |-> NullPath,
     skip_deserialize |-> TRUE, byte_limiter |-> 0]

EmptyArgs == [empty |-> TRUE]

\* ParamInfo(skip_deserialize=True): every other field at its default.
SkipInfo == ParamInfo(<<>>, NullPath, TRUE, 0)

UnsupportedLeaf(leaf) ==
    ~leaf_is_placeholder(leaf) /\ ~is_supported_empty_aggregation_type(leaf)
    /\ ~is_supported_aggregation_type(leaf)

\* A variant that makes a limiter for the leaf instead of taking the call's.
_get_param_info_limiter_per_leaf(directory, byte_limiter, nested_name, leaf) ==
    IF leaf_is_placeholder(leaf)
    THEN ParamInfo(Join(nested_name, "."),
                   PathJoin(directory, name_from_leaf_placeholder(leaf)),
                   FALSE, byte_limiter + Len(nested_name))
    ELSE IF is_supported_empty_aggregation_type(leaf) THEN EmptyInfo
    ELSE ParamInfo(Join(nested_name, "."), NullPath, TRUE, byte_limiter)

\* A variant that returns a ParamInfo for an empty node.
_get_param_info_for_empty_node(directory, byte_limiter, nested_name, leaf) ==
    IF leaf_is_placeholder(leaf)
    THEN ParamInfo(Join(nested_name, "."),
                   PathJoin(directory, name_from_leaf_placeholder(leaf)),
                   FALSE, byte_limiter)
    ELSE ParamInfo(Join(nested_name, "."), NullPath, TRUE, byte_limiter)

\* A variant that has the aggregated values read by a type handler too.
_get_param_info_reads_aggregated(directory, byte_limiter, nested_name, leaf) ==
    IF leaf_is_placeholder(leaf)
    THEN ParamInfo(Join(nested_name, "."),
                   PathJoin(directory, name_from_leaf_placeholder(leaf)),
                   FALSE, byte_limiter)
    ELSE IF is_supported_empty_aggregation_type(leaf) THEN EmptyInfo
    ELSE ParamInfo(Join(nested_name, "."), NullPath, FALSE, byte_limiter)

\* lines 244-267
_get_param_info(directory, byte_limiter, nested_name, leaf) ==
    IF leaf_is_placeholder(leaf)
    THEN ParamInfo(Join(nested_name, "."),
                   PathJoin(directory, name_from_leaf_placeholder(leaf)),
                   FALSE, byte_limiter)
    ELSE IF is_supported_empty_aggregation_type(leaf) THEN EmptyInfo
    ELSE ParamInfo(Join(nested_name, "."), NullPath, TRUE, byte_limiter)

\* tree_map(lambda x: RestoreArgs(), structure)
DefaultArgsTree(structure) ==
    [k \in DOMAIN structure |->
        IF is_supported_empty_aggregation_type(structure[k]) THEN EmptyArgs
        ELSE DefaultRestoreArgs]

(***************************************************************************)
(* Regular expressions over key strings.                                   *)
(***************************************************************************)
\* A pattern is a sequence of tokens: a character, the dot (any character)
\* or GroupToken (a group capturing any string).  The patterns of the model
\* hold at most one group, so the group's capture is determined by the
\* match.  A template is a sequence of characters and GroupRef tokens.
GroupToken == "(.*)"

GroupRef == "\\1"

TokenMatches(tok, ch) == tok = "." \/ tok = ch

GroupIndex(pat) ==
    IF \E i \in 1..Len(pat) : pat[i] = GroupToken
    THEN CHOOSE i \in 1..Len(pat) : pat[i] = GroupToken
    ELSE 0

NoMatchObject == [matched |-> FALSE, group1 |-> <<>>]

re_fullmatch(pat, str) ==
    LET g == GroupIndex(pat)
        n == Len(str)
        pre == g - 1
        post == Len(pat) - g
    IN IF g = 0
       THEN [matched |-> Len(pat) = n /\ \A i \in 1..n : TokenMatches(pat[i], str[i]),
             group1 |-> <<>>]
       ELSE IF /\ n >= pre + post
               /\ \A i \in 1..pre : TokenMatches(pat[i], str[i])
               /\ \A j \in 1..post : TokenMatches(pat[g + j], str[n - post + j])
            THEN [matched |-> TRUE, group1 |-> SubSeq(str, pre + 1, n - post)]
            ELSE NoMatchObject

RECURSIVE match_expand(_, _)
match_expand(match, template) ==
    IF template = <<>> THEN <<>>
    ELSE (IF Head(template) = GroupRef THEN match.group1 ELSE <<Head(template)>>)
         \o match_expand(match, Tail(template))

(***************************************************************************)
(* Transforms.                                                             *)
(***************************************************************************)
\* multi_value_fn: whether one is given.  multi_value_fn_input_args: None or
\* a sequence of [regex, args] entries, in the map's iteration order.
Transform(original_key, use_fallback, multi_value_fn, is_restore_transform, input_args) ==
    [original_key |-> original_key, use_fallback |-> use_fallback,
     multi_value_fn |-> multi_value_fn,
     is_restore_transform |-> is_restore_transform,
     multi_value_fn_input_args |-> input_args]

NoMatch == [status |-> "none", args |-> DefaultRestoreArgs, error |-> ""]

Found(args) == [status |-> "found", args |-> args, error |-> ""]

Raised(error) == [status |-> "error", args |-> DefaultRestoreArgs, error |-> error]

\* lines 154-159: the first entry of the input map whose regex matches
RECURSIVE MatchInputArgs(_, _)
MatchInputArgs(entries, input_key) ==
    IF entries = <<>> THEN NoMatch
    ELSE IF re_fullmatch(Head(entries).regex, _keystr(input_key)).matched
         THEN Found(Head(entries).args)
         ELSE MatchInputArgs(Tail(entries), input_key)

\* lines 163-174: the first key of the item that the rule maps to input_key
RECURSIVE MatchOutputKeys(_, _, _, _, _)
MatchOutputKeys(output_keys, transform_key, transform, input_key, flat_restore_args) ==
    IF output_keys = <<>> THEN NoMatch
    ELSE LET output_key == Head(output_keys)
             match == re_fullmatch(_keystr(transform_key), _keystr(output_key))
             input_key_pattern ==
                 IF ~transform.original_key.some THEN _keystr(output_key)
                 ELSE match_expand(match, transform.original_key.v)
         IN IF match.matched /\ input_key_pattern = _keystr(input_key)
            THEN IF output_key \in DOMAIN flat_restore_args
                 THEN Found(flat_restore_args[output_key])
                 ELSE Raised("KeyError")
            ELSE MatchOutputKeys(Tail(output_keys), transform_key, transform,
                                 input_key, flat_restore_args)

MatchTransform(input_key, flat_item, entry, flat_restore_args) ==
    IF entry.transform.multi_value_fn
    THEN IF ~entry.transform.is_restore_transform THEN Raised("ValueError")
         ELSE IF ~entry.transform.multi_value_fn_input_args.some THEN Raised("ValueError")
         ELSE MatchInputArgs(entry.transform.multi_value_fn_input_args.v, input_key)
    ELSE IF ~entry.transform.use_fallback
         THEN MatchOutputKeys(OrderedKeys(DOMAIN flat_item), entry.key,
                              entry.transform, input_key, flat_restore_args)
         ELSE NoMatch

\* The rules are tried in the iteration order of flat_transforms; the first
\* match (or error) is the answer.
RECURSIVE _find_matching_input_args(_, _, _, _)
_find_matching_input_args(input_key, flat_item, flat_transforms, flat_restore_args) ==
    IF flat_transforms = <<>> THEN NoMatch
    ELSE LET r == MatchTransform(input_key, flat_item, Head(flat_transforms),
                                 flat_restore_args)
         IN IF r.status # "none" THEN r
            ELSE _find_matching_input_args(input_key, flat_item,
                                           Tail(flat_transforms), flat_restore_args)

\* A variant that finds no use_fallback rule.
_has_use_fallback_transform_never(input_key, flat_transforms) == FALSE

_has_use_fallback_transform(input_key, flat_transforms) ==
    \E i \in 1..Len(flat_transforms) :
        /\ re_fullmatch(_keystr(flat_transforms[i].key), _keystr(input_key)).matched
        /\ flat_transforms[i].transform.use_fallback

\* A variant whose rows without use_fallback rule are exchanged.
KeyParameters_rows_exchanged(directory, byte_limiter, input_key, value, flat_item, flat_structure, flat_transforms, flat_restore_args, transforms_default_to_original) ==
    LET maybe_input_args == _find_matching_input_args(input_key, flat_item,
                                flat_transforms, flat_restore_args)
        from_leaf == [error |-> IF UnsupportedLeaf(value) THEN "ValueError" ELSE "",
                      info |-> _get_param_info(directory, byte_limiter, input_key, value),
                      args |-> DefaultRestoreArgs]
        with_own_args ==
            IF input_key \in DOMAIN flat_restore_args
            THEN [from_leaf EXCEPT !.args = flat_restore_args[input_key]]
            ELSE [from_leaf EXCEPT !.error = "KeyError"]
        skipped == [error |-> "", info |-> SkipInfo, args |-> DefaultRestoreArgs]
    IN IF maybe_input_args.status = "error"
       THEN [from_leaf EXCEPT !.error = maybe_input_args.error]
       ELSE IF maybe_input_args.status = "found"
       THEN [from_leaf EXCEPT !.args = maybe_input_args.args]
       ELSE IF input_key \in DOMAIN flat_item /\ input_key \in DOMAIN flat_structure
       THEN IF _has_use_fallback_transform(input_key, flat_transforms)
            THEN IF transforms_default_to_original THEN skipped ELSE with_own_args
            ELSE IF transforms_default_to_original THEN skipped ELSE with_own_args
       ELSE skipped

\* lines 282-320: the ParamInfo and RestoreArgs of one saved key when
\* transforms are given
KeyParameters(directory, byte_limiter, input_key, value, flat_item, flat_structure, flat_transforms, flat_restore_args, transforms_default_to_original) ==
    LET maybe_input_args == _find_matching_input_args(input_key, flat_item,
                                flat_transforms, flat_restore_args)
        from_leaf == [error |-> IF UnsupportedLeaf(value) THEN "ValueError" ELSE "",
                      info |-> _get_param_info(directory, byte_limiter, input_key, value),
                      args |-> DefaultRestoreArgs]
        with_own_args ==
            IF input_key \in DOMAIN flat_restore_args
            THEN [from_leaf EXCEPT !.args = flat_restore_args[input_key]]
            ELSE [from_leaf EXCEPT !.error = "KeyError"]
        skipped == [error |-> "", info |-> SkipInfo, args |-> DefaultRestoreArgs]
    IN IF maybe_input_args.status = "error"
       THEN [from_leaf EXCEPT !.error = maybe_input_args.error]
       ELSE IF maybe_input_args.status = "found"
       THEN [from_leaf EXCEPT !.args = maybe_input_args.args]
       ELSE IF input_key \in DOMAIN flat_item /\ input_key \in DOMAIN flat_structure
       THEN IF _has_use_fallback_transform(input_key, flat_transforms)
            THEN IF transforms_default_to_original THEN skipped ELSE with_own_args
            ELSE IF transforms_default_to_original THEN with_own_args ELSE skipped
       ELSE skipped

FirstError(keys, results) ==
    LET bad == SelectSeq(keys, LAMBDA k : results[k].error # "")
    IN IF bad = <<>> THEN "" ELSE results[Head(bad)].error

\* A variant that does not look at the item.
transforms_without_item_unchecked(item, transforms) == FALSE

\* lines 273-274 and 446-447: transforms is not None and item is None
transforms_without_item(item, transforms) == transforms.some /\ ~item.some

_get_restore_parameters(directory, item, structure, transforms, restore_args, byte_limiter, transforms_default_to_original) ==
    LET flat_structure == structure
        flat_restore_args == IF restore_args.some THEN restore_args.v
                             ELSE DefaultArgsTree(structure)
        keys == OrderedKeys(DOMAIN flat_structure)
    IN IF ~transforms.some
       THEN [error |-> IF \E k \in DOMAIN flat_structure : UnsupportedLeaf(flat_structure[k])
                       THEN "ValueError" ELSE "",
             param_infos |-> [k \in DOMAIN flat_structure |->
                                 _get_param_info(directory, byte_limiter, k, flat_structure[k])],
             restore_args |-> flat_restore_args]
       ELSE IF transforms_without_item(item, transforms)
       THEN [error |-> "ValueError", param_infos |-> <<>>, restore_args |-> <<>>]
       ELSE LET results == [k \in DOMAIN flat_structure |->
                               KeyParameters(directory, byte_limiter, k, flat_structure[k],
                                             item.v, flat_structure, transforms.v,
                                             flat_restore_args,
                                             transforms_default_to_original)]
            IN [error |-> FirstError(keys, results),
                param_infos |-> [k \in DOMAIN flat_structure |-> results[k].info],
                restore_args |-> [k \in DOMAIN flat_structure |-> results[k].args]]

(***************************************************************************)
(* Restore: reading and reassembling.                                      *)
(***************************************************************************)
\* tree_map over trees of different structure raises.
SameStructure(param_infos, restore_args) ==
    /\ DOMAIN restore_args = DOMAIN param_infos
    /\ \A k \in DOMAIN param_infos :
          param_infos[k].isinfo <=> IsRestoreArgs(restore_args[k])

\* _maybe_shard_array acts on ArrayRestoreArgs only, which are not modelled.
_process_aggregated_value(info, value, args) ==
    IF info.isinfo /\ info.skip_deserialize
    THEN _try_array_cast(value, args.dtype)
    ELSE value

\* TypeHandler.deserialize of one slot: the value stored at the slot's path,
\* cast to the dtype asked for.
DeserializedValue(files, info, arg) == _try_array_cast(files[info.path], arg.dtype)

Deserialize(files, request) ==
    [i \in 1..Len(request.infos) |->
        DeserializedValue(files, request.infos[i], request.args[i])]

\* a node without leaves, in a tree of values or of arguments
IsEmptyNode(x) ==
    \/ "empty" \in DOMAIN x
    \/ "kind" \in DOMAIN x /\ is_supported_empty_aggregation_type(x)

LastOf(keys) ==
    CHOOSE k \in keys : \A j \in keys :
        (CHOOSE i \in 1..Len(TreeOrder) : TreeOrder[i] = j)
          <= (CHOOSE i \in 1..Len(TreeOrder) : TreeOrder[i] = k)

\* to_flat_dict(tree, sep): keys joined by sep, empty nodes left out.  Two
\* key paths with the same joined string share one entry, the later in
\* traversal order staying.
to_flat_dict(tree, sep) ==
    LET leaves == {k \in DOMAIN tree : ~IsEmptyNode(tree[k])}
        names == {Join(k, sep) : k \in leaves}
    IN [n \in names |-> tree[LastOf({k \in leaves : Join(k, sep) = n})]]

\* from_flat_dict(flat_dict, target, sep): the target's shape populated from
\* the entries of its joined key paths.
from_flat_dict(flat_dict, target, sep) ==
    [k \in DOMAIN target |->
        IF IsEmptyNode(target[k]) THEN target[k]
        ELSE flat_dict[Join(k, sep)]]

\* lines 680-682: flat_restored[info.name] = value, request after request
RECURSIVE StoreValues(_, _, _)
StoreValues(flat_restored, infos, values) ==
    IF infos = <<>> THEN flat_restored
    ELSE StoreValues((Head(infos).name :> Head(values)) @@ flat_restored,
                     Tail(infos), Tail(values))

RECURSIVE StoreBatches(_, _, _)
StoreBatches(flat_restored, batch_requests, deserialized_batches) ==
    IF batch_requests = <<>> THEN flat_restored
    ELSE StoreBatches(StoreValues(flat_restored, Head(batch_requests).infos,
                                  Head(deserialized_batches)),
                      Tail(batch_requests), Tail(deserialized_batches))

_maybe_deserialize(files, structure, param_infos, restore_args) ==
    IF ~SameStructure(param_infos, restore_args)
    THEN [error |-> "ValueError", batch_requests |-> <<>>, restored |-> <<>>]
    ELSE
    LET processed == [k \in DOMAIN structure |->
                         _process_aggregated_value(param_infos[k], structure[k],
                                                   restore_args[k])]
        batch_requests == _batched_serialization_requests(processed, param_infos,
                                                          restore_args)
        unregistered == \E r \in 1..Len(batch_requests) :
                            batch_requests[r].handler = "unregistered"
        missing == \E s \in Slots(batch_requests) :
                       batch_requests[s[1]].infos[s[2]].path \notin DOMAIN files
    IN IF unregistered
       THEN [error |-> "ValueError", batch_requests |-> <<>>, restored |-> <<>>]
       ELSE IF missing
       THEN [error |-> "CodecFailure", batch_requests |-> batch_requests,
             restored |-> <<>>]
       ELSE LET deserialized_batches ==
                    [r \in 1..Len(batch_requests) |-> Deserialize(files, batch_requests[r])]
                flat_restored == StoreBatches(to_flat_dict(processed, "."),
                                              batch_requests, deserialized_batches)
            IN [error |-> "", batch_requests |-> batch_requests,
                restored |-> from_flat_dict(flat_restored, processed, ".")]

(***************************************************************************)
(* Restore: from the saved shape to the target shape.                      *)
(***************************************************************************)
\* deserialize_tree(restored, item): the item's shape, each leaf looked up
\* in restored at its key path.
deserialize_tree(restored, item) ==
    IF DOMAIN item \subseteq DOMAIN restored
    THEN [error |-> "", tree |-> [k \in DOMAIN item |-> restored[k]]]
    ELSE [error |-> "KeyError", tree |-> <<>>]

RECURSIVE SumVals(_, _)
SumVals(tree, keys) ==
    IF keys = {} THEN 0
    ELSE LET k == CHOOSE x \in keys : TRUE
         IN tree[k].val + SumVals(tree, keys \ {k})

\* The merge function of the model's MultiMerge rules: the sum of the
\* leaves of the restored tree that the rule's input regexes match.
multi_value_fn(transform, tree) ==
    LET entries == IF transform.multi_value_fn_input_args.some
                   THEN transform.multi_value_fn_input_args.v ELSE <<>>
        inputs == {k \in DOMAIN tree : \E i \in 1..Len(entries) :
                      re_fullmatch(entries[i].regex, _keystr(k)).matched}
    IN Value("int", SumVals(tree, inputs))

\* _multi_value_fns_with_args: the merge function is called with the
\* RestoreArgs found at the rule's own key in the caller's tree.  Every rule
\* with a multi_value_fn is wrapped, of whichever class; the function of a
\* plain Transform takes (transform_key, tree) and cannot take the third
\* argument.
_multi_value_fn_with_args(entry, tree, restore_args) ==
    LET flat_restore_args == to_flat_dict(restore_args, "/")
    IN IF _keystr(entry.key) \notin DOMAIN flat_restore_args
       THEN [error |-> "KeyError", value |-> NoneValue]
       ELSE IF ~entry.transform.is_restore_transform
       THEN [error |-> "TypeError", value |-> NoneValue]
       ELSE [error |-> "", value |-> multi_value_fn(entry.transform, tree)]

\* One rule applied to one key of the new tree.  acc is the value held at
\* the key so far, whether a rule has matched, and the error raised.
ApplyRule(entry, key, acc, original_tree, restore_args, default_to_original, fallback_source) ==
    LET match == re_fullmatch(_keystr(entry.key), _keystr(key))
        original == to_flat_dict(original_tree, "/")
        original_key == IF entry.transform.original_key.some
                        THEN match_expand(match, entry.transform.original_key.v)
                        ELSE _keystr(key)
        merged == _multi_value_fn_with_args(entry, original_tree, restore_args)
    IN IF acc.error # "" \/ ~match.matched THEN acc
       ELSE IF entry.transform.use_fallback
       THEN IF default_to_original \/ fallback_source = "new"
            THEN [acc EXCEPT !.matched = TRUE]
            ELSE IF _keystr(key) \in DOMAIN original
                 THEN [acc EXCEPT !.matched = TRUE, !.value = original[_keystr(key)]]
                 ELSE [acc EXCEPT !.error = "ValueError"]
       ELSE IF ~entry.transform.multi_value_fn
       THEN IF original_key \in DOMAIN original
            THEN [acc EXCEPT !.matched = TRUE, !.value = original[original_key]]
            ELSE [acc EXCEPT !.error = "ValueError"]
       ELSE IF merged.error # "" THEN [acc EXCEPT !.error = merged.error]
            ELSE [acc EXCEPT !.matched = TRUE, !.value = merged.value]

RECURSIVE ApplyRules(_, _, _, _, _, _, _)
ApplyRules(entries, key, acc, original_tree, restore_args, default_to_original, fallback_source) ==
    IF entries = <<>> THEN acc
    ELSE ApplyRules(Tail(entries), key,
                    ApplyRule(Head(entries), key, acc, original_tree, restore_args,
                              default_to_original, fallback_source),
                    original_tree, restore_args, default_to_original, fallback_source)

\* transform_utils.apply_transformations.  For a use_fallback rule with
\* default_to_original false the value is the caller's or the checkpoint's
\* (fallback_source): both readings are admitted.
apply_transformations(original_tree, transforms, new_tree, restore_args, default_to_original, fallback_source) ==
    LET original == to_flat_dict(original_tree, "/")
        result == [key \in DOMAIN new_tree |->
            LET acc == ApplyRules(transforms, key,
                                  [error |-> "", matched |-> FALSE, value |-> new_tree[key]],
                                  original_tree, restore_args, default_to_original,
                                  fallback_source)
            IN IF acc.error # "" \/ acc.matched \/ ~default_to_original THEN acc
               ELSE IF _keystr(key) \in DOMAIN original
                    THEN [acc EXCEPT !.value = original[_keystr(key)]]
                    ELSE [acc EXCEPT !.error = "ValueError"]]
    IN [error |-> FirstError(OrderedKeys(DOMAIN new_tree), result),
        tree |-> [key \in DOMAIN new_tree |-> result[key].value]]

\* A variant that returns the restored tree in the saved shape.
_transform_structure_keeps_restored(item, restored, restore_args, transforms, transforms_default_to_original, fallback_source) ==
    [error |-> "", tree |-> restored]

_transform_structure(item, restored, restore_args, transforms, transforms_default_to_original, fallback_source) ==
    IF ~item.some
    THEN IF transforms.some THEN [error |-> "ValueError", tree |-> <<>>]
         ELSE [error |-> "", tree |-> restored]
    ELSE IF ~transforms.some THEN deserialize_tree(restored, item.v)
    ELSE IF ~restore_args.some THEN [error |-> "ValueError", tree |-> <<>>]
    ELSE apply_transformations(restored, transforms.v, item.v, restore_args.v,
                               transforms_default_to_original, fallback_source)

(***************************************************************************)
(* State.                                                                  *)
(***************************************************************************)
VARIABLES
    config,     \* the handler's construction arguments
    disk,       \* the checkpoint directory: the aggregate file, the leaf files
    saved,      \* the item and arguments of the save that was made (ghost)
    pc,         \* where the running call stands
    call,       \* the arguments of the running restore call
    work,       \* the locals of the running restore call
    events,     \* the collaborators touched by the running restore call, in order
    outcome,    \* what the last call returned or raised
    limiters,   \* the byte limiters created so far
    ncalls,     \* the restore calls made so far
    gov,        \* the byte limiter of the running restore call
    reads,      \* the reads of the running restore call, one per fetched leaf
    msave       \* the running multi-process save: its arguments, each process

vars == <<config, disk, saved, pc, call, work, events, outcome, limiters, ncalls,
          gov, reads, msave>>

NoDisk == [exists |-> FALSE, has_aggregate |-> FALSE, aggregate |-> <<>>,
           files |-> <<>>, dirs |-> {}]

NoCall == [directory |-> Directory, item |-> None, restore_args |-> None,
           transforms |-> None, transforms_default_to_original |-> TRUE]

NoSave == [done |-> FALSE, item |-> <<>>, save_args |-> <<>>, error |-> ""]

\* saved is a ghost field: the save that had been made when the call began.
NoWork == [byte_limiter |-> 0, structure |-> <<>>, param_infos |-> <<>>,
           restore_args |-> <<>>, batch_requests |-> <<>>, restored |-> <<>>,
           saved |-> NoSave]

NoOutcome == [status |-> "none", error |-> "", tree |-> <<>>]

Event(op, handler, infos) == [op |-> op, handler |-> handler, infos |-> infos]

\* _LimitInFlightBytes(num_bytes)
_LimitInFlightBytes(num_bytes) == [max_bytes |-> num_bytes, available_bytes |-> num_bytes]

NoLimiter == _LimitInFlightBytes(0)

NoMultiSave ==
    [started |-> FALSE, item |-> <<>>, save_args |-> <<>>, plan |-> <<>>, proc |-> <<>>]

\* __init__ (lines 475-501), with use_ocdbt one of use_ocdbt_values
Start(use_ocdbt_values) ==
    /\ config \in [use_ocdbt : use_ocdbt_values, concurrent_gb : {ConcurrentGb}]
    /\ gov = NoLimiter
    /\ reads = <<>>
    /\ msave = NoMultiSave
    /\ disk = NoDisk
    /\ saved = NoSave
    /\ pc = "idle"
    /\ call = NoCall
    /\ work = NoWork
    /\ events = <<>>
    /\ outcome = NoOutcome
    /\ limiters = 0
    /\ ncalls = 0

Init == Start({FALSE})

(***************************************************************************)
(* save(), in a single process.                                            *)
(***************************************************************************)
\* async_save and the commit of its futures: what they leave on disk.  The
\* caller has created the checkpoint directory.  An error leaves behind what
\* was written before it.
async_save(item, save_args_in) ==
    LET plan == SavePlan(Directory, item, save_args_in)
        dirs == IF creates_param_dirs(config.use_ocdbt, plan.all_params_aggregated)
                THEN CreatedDirs(plan, 0) ELSE {}
        fails_early == plan.empty_item
        fails_late == ~plan.all_params_aggregated /\ plan.unregistered
        requests == IF plan.all_params_aggregated THEN <<>> ELSE plan.batch_requests
    IN IF fails_early \/ fails_late
       THEN /\ disk' = [NoDisk EXCEPT !.exists = TRUE,
                                      !.dirs = IF fails_early THEN {} ELSE dirs]
            /\ saved' = [done |-> TRUE, item |-> item, save_args |-> save_args_in,
                         error |-> "ValueError"]
       ELSE \E files \in FileOutcomes(requests) :
            /\ disk' = [exists |-> TRUE, has_aggregate |-> ~plan.not_replicated,
                        aggregate |-> IF plan.not_replicated THEN <<>>
                                      ELSE plan.ser_item,
                        files |-> files, dirs |-> dirs]
            /\ saved' = [done |-> TRUE, item |-> item, save_args |-> save_args_in,
                         error |-> IF plan.not_replicated THEN "ValueError" ELSE ""]

\* save() of a PyTreeCheckpointHandler, in one process
Save(item, save_args_in) ==
    /\ pc = "idle"
    /\ ~saved.done
    /\ async_save(item, save_args_in)
    /\ UNCHANGED <<msave, gov, reads, config, pc, call, work, events, outcome, limiters, ncalls>>

(***************************************************************************)
(* restore().                                                              *)
(***************************************************************************)
Raise(error) == [status |-> "raised", error |-> error, tree |-> <<>>]

Return(tree) == [status |-> "returned", error |-> "", tree |-> tree]

RestoreCallWithin(c, max_calls) ==
    /\ pc = "idle"
    /\ ncalls < max_calls
    /\ ncalls' = ncalls + 1
    /\ call' = c
    /\ pc' = "check_exists"
    /\ work' = [NoWork EXCEPT !.saved = saved]
    /\ events' = <<>>
    /\ outcome' = NoOutcome
    /\ gov' = NoLimiter
    /\ reads' = <<>>
    /\ UNCHANGED <<msave, config, disk, saved, limiters>>

RestoreCall(c) == RestoreCallWithin(c, MaxCalls)

\* line 735: 10**9
BytesPerGb == 1000000000

\* A variant that never looks.
directory_exists_always(directory, dk) == TRUE

\* line 729: directory.exists()
directory_exists(directory, dk) == directory = Directory /\ dk.exists

\* lines 729-731
CheckExists ==
    /\ pc = "check_exists"
    /\ IF directory_exists(call.directory, disk)
       THEN pc' = "create_byte_limiter" /\ UNCHANGED outcome
       ELSE pc' = "idle" /\ outcome' = Raise("FileNotFoundError")
    /\ UNCHANGED <<msave, gov, reads, config, disk, saved, call, work, events, limiters, ncalls>>

\* A variant that reserves twice the bytes.
concurrent_bytes_doubled(concurrent_gb) == concurrent_gb * BytesPerGb * 2

\* line 735
concurrent_bytes(concurrent_gb) == concurrent_gb * BytesPerGb

\* lines 733-742: one limiter for the whole call
_create_byte_limiter ==
    /\ pc = "create_byte_limiter"
    /\ limiters' = limiters + 1
    /\ gov' = _LimitInFlightBytes(concurrent_bytes(config.concurrent_gb))
    /\ work' = [work EXCEPT !.byte_limiter = limiters + 1]
    /\ events' = Append(events, Event("create_byte_limiter", "", <<>>))
    /\ pc' = "structure"
    /\ UNCHANGED <<msave, reads, config, disk, saved, call, outcome, ncalls>>

\* utils.pytree_structure: without an aggregate file the tree is inferred
\* from the names of the leaf directories, split at the dots.
pytree_structure(dk) ==
    LET names == {SubSeq(p, Len(Directory) + 2, Len(p)) : p \in dk.dirs \cup DOMAIN dk.files}
        keys == {k \in AllKeys : /\ _param_name_from_keypath(k) \in names
                                 /\ \A i \in 1..Len(k) : "." \notin Range(k[i])}
    IN [k \in keys |-> leaf_placeholder(_param_name_from_keypath(k))]

\* lines 779-807
structure ==
    /\ pc = "structure"
    /\ IF disk.has_aggregate
       THEN /\ work' = [work EXCEPT !.structure = disk.aggregate]
            /\ events' = Append(events, Event("aggregate_deserialize", "", <<>>))
            /\ pc' = "get_restore_parameters"
            /\ UNCHANGED outcome
       ELSE IF config.use_ocdbt
       THEN /\ pc' = "idle"
            /\ outcome' = Raise("ValueError")
            /\ UNCHANGED <<work, events>>
       ELSE /\ work' = [work EXCEPT !.structure = pytree_structure(disk)]
            /\ pc' = "get_restore_parameters"
            /\ UNCHANGED <<outcome, events>>
    /\ UNCHANGED <<msave, gov, reads, config, disk, saved, call, limiters, ncalls>>

\* lines 746-754
GetRestoreParameters ==
    LET r == _get_restore_parameters(call.directory, call.item, work.structure,
                                     call.transforms, call.restore_args,
                                     work.byte_limiter,
                                     call.transforms_default_to_original)
    IN /\ pc = "get_restore_parameters"
       /\ IF r.error # ""
          THEN pc' = "idle" /\ outcome' = Raise(r.error) /\ UNCHANGED work
          ELSE /\ work' = [work EXCEPT !.param_infos = r.param_infos,
                                       !.restore_args = r.restore_args]
               /\ pc' = "maybe_deserialize"
               /\ UNCHANGED outcome
       /\ UNCHANGED <<msave, gov, reads, config, disk, saved, call, events, limiters, ncalls>>

\* lines 764-766: the batched reads, one deserialize call per request
MaybeDeserialize ==
    LET r == _maybe_deserialize(disk.files, work.structure, work.param_infos,
                                work.restore_args)
    IN /\ pc = "maybe_deserialize"
       /\ events' = events \o [i \in 1..Len(r.batch_requests) |->
                         Event("deserialize", r.batch_requests[i].handler,
                               r.batch_requests[i].infos)]
       /\ IF r.error # ""
          THEN pc' = "idle" /\ outcome' = Raise(r.error)
               /\ work' = [work EXCEPT !.batch_requests = r.batch_requests]
          ELSE /\ work' = [work EXCEPT !.batch_requests = r.batch_requests,
                                       !.restored = r.restored]
               /\ pc' = "transform_structure"
               /\ UNCHANGED outcome
       /\ UNCHANGED <<msave, gov, reads, config, disk, saved, call, limiters, ncalls>>

\* lines 768-777: the target shape, then the barrier, then the return
TransformStructure ==
    /\ pc = "transform_structure"
    /\ \E fallback_source \in {"new", "original"} :
          LET r == _transform_structure(call.item, work.restored, call.restore_args,
                                        call.transforms,
                                        call.transforms_default_to_original,
                                        fallback_source)
          IN IF r.error # ""
             THEN pc' = "idle" /\ outcome' = Raise(r.error) /\ UNCHANGED events
             ELSE /\ events' = Append(events, Event("sync_global_devices", "", <<>>))
                  /\ outcome' = Return(r.tree)
                  /\ pc' = "idle"
    /\ UNCHANGED <<msave, gov, reads, config, disk, saved, call, work, limiters, ncalls>>

RestoreSteps ==
    \/ CheckExists
    \/ _create_byte_limiter
    \/ structure
    \/ GetRestoreParameters
    \/ MaybeDeserialize
    \/ TransformStructure

(***************************************************************************)
(* The inputs of the calls.                                                *)
(***************************************************************************)
\* The value a caller's target item holds at every leaf: no saved payload.
CallerValue == Value("int", 0)

\* The RestoreArgs a caller records at a key of the target: one per key.
ArgsAt(k) ==
    CASE k = KA -> RestoreArgs("int", NoDtype)
      [] k = KB -> RestoreArgs("ndarray", NoDtype)
      [] k = KC -> RestoreArgs("None", "float32")
      [] OTHER -> RestoreArgs("None", NoDtype)

TreesOver(keys, leaves) ==
    UNION {[D -> leaves] : D \in {D \in SUBSET keys : Cardinality(D) <= 2 /\ IsTreeDomain(D)}}

\* A leaf with the SaveArgs given for it.
PlainLeaves ==
    ({Value("int", v) : v \in 1..MaxVal}
        \X {NoSaveArgs, SaveArgs(TRUE, NoDtype), SaveArgs(TRUE, "float32")})
    \cup ({Value("ndarray", 1)} \X {NoSaveArgs, SaveArgs(TRUE, NoDtype)})
    \cup ({EmptyNode} \X {NoSaveArgs, SaveArgs(FALSE, NoDtype)})

PlainKeys == {KA, KAB, KADotB}

PlainSaves == TreesOver(PlainKeys, PlainLeaves)

TargetsOver(keys) == {Some(t) : t \in TreesOver(keys, {CallerValue}) \ {<<>>}}

ArgsTree(t) == [k \in DOMAIN t |-> ArgsAt(k)]

\* restore_args are shaped like the item when one is given
PlainCalls ==
    {c \in [directory : {Directory, MissingDirectory},
            item : {None} \cup TargetsOver(PlainKeys),
            restore_args : {None} \cup {Some(ArgsTree(t.v)) : t \in TargetsOver(PlainKeys)},
            transforms : {None},
            transforms_default_to_original : {TRUE}] :
        c.item.some /\ c.restore_args.some
            => DOMAIN c.restore_args.v = DOMAIN c.item.v}

Next ==
    \/ \E s \in PlainSaves :
          Save([k \in DOMAIN s |-> s[k][1]], [k \in DOMAIN s |-> s[k][2]])
    \/ \E c \in PlainCalls : RestoreCall(c)
    \/ RestoreSteps

Spec == Init /\ [][Next]_vars

(***************************************************************************)
(* Restore calls with transforms.                                          *)
(***************************************************************************)
\* The kinds of rule: use_fallback, rename from original_key, a rule that
\* leaves the key unchanged, and a RestoreTransform with a multi_value_fn.
UseFallback == Transform(None, TRUE, FALSE, FALSE, None)

Rename(original_key) == Transform(Some(original_key), FALSE, FALSE, FALSE, None)

Unchanged == Transform(None, FALSE, FALSE, FALSE, None)

MultiMerge(input_args) == Transform(None, FALSE, TRUE, TRUE, Some(input_args))

MergeArgsA == RestoreArgs("None", "int8")

MergeArgsAny == RestoreArgs("None", "float64")

\* a rule key that is a pattern: one group
KGroup == <<<<GroupToken>>>>

RuleEntries ==
    {[key |-> KA, transform |-> UseFallback],
     [key |-> KA, transform |-> Unchanged],
     [key |-> KB, transform |-> Rename(<<"a">>)],
     [key |-> KC, transform |-> MultiMerge(<<[regex |-> <<"a">>, args |-> MergeArgsA],
                                             [regex |-> <<".">>, args |-> MergeArgsAny]>>)],
     [key |-> KGroup, transform |-> Rename(<<GroupRef>>)]}

\* flat_transforms: one or two rules at distinct keys, in either order
TransformLists ==
    {<<e>> : e \in RuleEntries}
    \cup {<<p[1], p[2]>> : p \in {q \in RuleEntries \X RuleEntries : q[1].key # q[2].key}}

TransformKeys == {KA, KB, KC}

TransformLeaves ==
    {Value("int", v) : v \in 1..MaxVal} \X {NoSaveArgs, SaveArgs(TRUE, NoDtype)}

\* the leaf at KB is individually stored
TransformSaves ==
    {s \in TreesOver({KA, KB}, TransformLeaves) \ {<<>>} :
        KB \in DOMAIN s => s[KB][2] = NoSaveArgs}

TransformCalls ==
    {c \in [directory : {Directory},
            item : TargetsOver(TransformKeys),
            restore_args : {Some(ArgsTree(t.v)) : t \in TargetsOver(TransformKeys)},
            transforms : {Some(l) : l \in TransformLists},
            transforms_default_to_original : BOOLEAN] :
        DOMAIN c.restore_args.v = DOMAIN c.item.v}

NextT ==
    \/ \E s \in TransformSaves :
          Save([k \in DOMAIN s |-> s[k][1]], [k \in DOMAIN s |-> s[k][2]])
    \/ \E c \in TransformCalls : RestoreCall(c)
    \/ RestoreSteps

SpecT == Init /\ [][NextT]_vars

(***************************************************************************)
(* Restore calls with arguments that do not go together.                   *)
(***************************************************************************)
\* RestoreTransform(multi_value_fn=f): multi_value_fn_input_args is None.
MergeWithoutInputArgs == Transform(None, FALSE, TRUE, TRUE, None)

\* Transform(multi_value_fn=f): not a RestoreTransform.
MergeNotRestoreTransform == Transform(None, FALSE, TRUE, FALSE, None)

\* RestoreTransform(multi_value_fn=f, multi_value_fn_input_args={})
MergeEmptyInputArgs == MultiMerge(<<>>)

\* lines 142-153: a rule that _find_matching_input_args raises for
is_misused(transform) ==
    /\ transform.multi_value_fn
    /\ ~transform.is_restore_transform \/ ~transform.multi_value_fn_input_args.some

ConfigRuleEntries ==
    {[key |-> KA, transform |-> Unchanged],
     [key |-> KB, transform |-> Rename(<<"a">>)],
     [key |-> KC, transform |-> MultiMerge(<<[regex |-> <<"a">>, args |-> MergeArgsA]>>)],
     [key |-> KC, transform |-> MergeWithoutInputArgs],
     [key |-> KC, transform |-> MergeNotRestoreTransform],
     [key |-> KC, transform |-> MergeEmptyInputArgs]}

ConfigTransformLists ==
    {<<e>> : e \in ConfigRuleEntries}
    \cup {<<p[1], p[2]>> : p \in {q \in ConfigRuleEntries \X ConfigRuleEntries :
                                      q[1].key # q[2].key}}

\* A save of nothing raises and leaves an empty directory behind.
ConfigSaves ==
    TreesOver({KA, KB}, {Value("int", 1)} \X {NoSaveArgs, SaveArgs(TRUE, NoDtype)})

\* restore_args, when given, are shaped like the item
ConfigCalls ==
    {c \in [directory : {Directory},
            item : {None} \cup TargetsOver({KA, KC}),
            restore_args : {None} \cup {Some(ArgsTree(t.v)) : t \in TargetsOver({KA, KC})},
            transforms : {None} \cup {Some(l) : l \in ConfigTransformLists},
            transforms_default_to_original : BOOLEAN] :
        c.restore_args.some
            => c.item.some /\ DOMAIN c.restore_args.v = DOMAIN c.item.v}

NextConfig ==
    \/ \E s \in ConfigSaves :
          Save([k \in DOMAIN s |-> s[k][1]], [k \in DOMAIN s |-> s[k][2]])
    \/ \E c \in ConfigCalls : RestoreCall(c)
    \/ RestoreSteps

SpecConfig == Init /\ [][NextConfig]_vars

(***************************************************************************)
(* StandardCheckpointHandler: save.                                        *)
(***************************************************************************)
\* checkpoint_utils.STANDARD_ARRAY_TYPES: int, float, np.ndarray, jax.Array
STANDARD_ARRAY_TYPES == {"int", "ndarray", "sharded"}

\* A variant that lets aggregate=True through.
_check_input_allows_aggregate(x, arg) ==
    IF x.kind \notin STANDARD_ARRAY_TYPES THEN "ValueError" ELSE ""

\* lines 85-91: the check of one leaf with the SaveArgs given for it
_check_input(x, arg) ==
    IF arg.isargs /\ arg.aggregate THEN "ValueError"
    ELSE IF x.kind \notin STANDARD_ARRAY_TYPES THEN "ValueError"
    ELSE ""

\* lines 77-93.  tree_map_with_path visits the leaves of the item; an empty
\* container or None has none.
_validate_save_state(item, save_args) ==
    IF ~item.some THEN "ValueError"
    ELSE IF \E k \in DOMAIN item.v :
               /\ ~is_supported_empty_aggregation_type(item.v[k])
               /\ _check_input(item.v[k], save_args[k]) # ""
    THEN "ValueError"
    ELSE ""

\* lines 113-117: async_save up to the validation.  The caller has created
\* the checkpoint directory.
StandardAsyncSave(item, save_args) ==
    /\ pc = "idle"
    /\ ~saved.done
    /\ ~disk.exists
    /\ call' = [NoCall EXCEPT !.item = item]
    /\ disk' = [NoDisk EXCEPT !.exists = TRUE]
    /\ IF _validate_save_state(item, save_args) # ""
       THEN /\ saved' = [done |-> TRUE, item |-> item.v, save_args |-> save_args,
                         error |-> _validate_save_state(item, save_args)]
            /\ UNCHANGED <<pc, events>>
       ELSE /\ saved' = [done |-> FALSE, item |-> item.v, save_args |-> save_args,
                         error |-> ""]
            /\ pc' = "super_async_save"
            /\ events' = <<Event("super_async_save", "", <<>>)>>
    /\ UNCHANGED <<msave, gov, reads, config, work, outcome, limiters, ncalls>>

\* lines 118-123: the async_save of PyTreeCheckpointHandler, on the same
\* item and save_args
SuperAsyncSave ==
    /\ pc = "super_async_save"
    /\ async_save(saved.item, saved.save_args)
    /\ pc' = "idle"
    /\ UNCHANGED <<msave, gov, reads, config, call, work, events, outcome, limiters, ncalls>>

\* An empty container is given no SaveArgs: the tree of SaveArgs has an
\* empty container there too.
StandardLeaves ==
    (({Value("int", v) : v \in 1..MaxVal}
         \cup {Value("ndarray", 1), Value("sharded", 1), Value("str", 1), Value("other", 1)})
        \X {NoSaveArgs, SaveArgs(FALSE, NoDtype), SaveArgs(TRUE, NoDtype)})
    \cup {<<EmptyNode, NoSaveArgs>>}

StandardSaves == TreesOver({KA, KB}, StandardLeaves)

\* __init__ (lines 59-75) passes use_ocdbt=True.
InitStandard == Start({TRUE})

NextStandard ==
    \/ StandardAsyncSave(None, <<>>)
    \/ \E s \in StandardSaves :
          StandardAsyncSave(Some([k \in DOMAIN s |-> s[k][1]]), [k \in DOMAIN s |-> s[k][2]])
    \/ SuperAsyncSave

SpecStandard == InitStandard /\ [][NextStandard]_vars

(***************************************************************************)
(* restore(), its reads run as concurrent tasks under the byte limiter.    *)
(***************************************************************************)
\* The bytes a read of the leaf declares to the limiter.
estimate_read_memory_footprint(value) == value.val * LeafBytes

ReadTask(info, files) ==
    [state |-> "waiting", path |-> info.path, limiter |-> info.byte_limiter,
     bytes |-> IF info.path \in DOMAIN files
               THEN estimate_read_memory_footprint(files[info.path])
               ELSE 0]

\* lines 668-677: the deserialize calls are dispatched, one task per leaf
DispatchReads ==
    LET r == _maybe_deserialize(disk.files, work.structure, work.param_infos,
                                work.restore_args)
        requests == r.batch_requests
    IN /\ pc = "maybe_deserialize"
       /\ IF r.error = "ValueError"
          THEN /\ pc' = "idle"
               /\ outcome' = Raise(r.error)
               /\ UNCHANGED <<work, events, reads>>
          ELSE /\ work' = [work EXCEPT !.batch_requests = requests]
               /\ events' = events \o [i \in 1..Len(requests) |->
                                 Event("deserialize", requests[i].handler,
                                       requests[i].infos)]
               /\ reads' = [slot \in Slots(requests) |->
                               ReadTask(requests[slot[1]].infos[slot[2]], disk.files)]
               /\ pc' = "gather"
               /\ UNCHANGED outcome
       /\ UNCHANGED <<msave, gov, config, disk, saved, call, limiters, ncalls>>

\* _LimitInFlightBytes.wait_for_bytes: the task goes on once the bytes it
\* asks for are available, and takes them.
wait_for_bytes(slot) ==
    /\ pc = "gather"
    /\ reads[slot].state = "waiting"
    /\ reads[slot].bytes <= gov.available_bytes
    /\ gov' = [gov EXCEPT !.available_bytes = @ - reads[slot].bytes]
    /\ reads' = [reads EXCEPT ![slot].state = "in_flight"]
    /\ UNCHANGED <<msave, config, disk, saved, pc, call, work, events, outcome,
                   limiters, ncalls>>

\* _LimitInFlightBytes.release_bytes, at the end of a read that completed
\* (ok) or failed.
release_bytes(slot, ok) ==
    /\ pc = "gather"
    /\ reads[slot].state = "in_flight"
    /\ ok => reads[slot].path \in DOMAIN disk.files
    /\ gov' = [gov EXCEPT !.available_bytes = @ + reads[slot].bytes]
    /\ reads' = [reads EXCEPT ![slot].state = IF ok THEN "done" ELSE "failed"]
    /\ UNCHANGED <<msave, config, disk, saved, pc, call, work, events, outcome,
                   limiters, ncalls>>

\* lines 677-685: asyncio.gather returns, or raises what a read raised
GatherReads ==
    LET r == _maybe_deserialize(disk.files, work.structure, work.param_infos,
                                work.restore_args)
    IN /\ pc = "gather"
       /\ \A slot \in DOMAIN reads : reads[slot].state \in {"done", "failed"}
       /\ IF \E slot \in DOMAIN reads : reads[slot].state = "failed"
          THEN pc' = "idle" /\ outcome' = Raise("CodecFailure") /\ UNCHANGED work
          ELSE /\ work' = [work EXCEPT !.restored = r.restored]
               /\ pc' = "transform_structure"
               /\ UNCHANGED outcome
       /\ UNCHANGED <<msave, gov, reads, config, disk, saved, call, events,
                      limiters, ncalls>>

\* Saved trees whose leaves are all read through a codec.
LimiterKeys == {KA, KB, KC}

LimiterSaves ==
    UNION {[D -> {Value("int", v) : v \in 1..MaxVal}] : D \in SUBSET LimiterKeys \ {{}}}

LimiterCall ==
    [directory |-> Directory, item |-> None, restore_args |-> None,
     transforms |-> None, transforms_default_to_original |-> TRUE]

NextGov ==
    \/ \E item \in LimiterSaves : Save(item, [k \in DOMAIN item |-> NoSaveArgs])
    \/ RestoreCall(LimiterCall)
    \/ CheckExists
    \/ _create_byte_limiter
    \/ structure
    \/ GetRestoreParameters
    \/ DispatchReads
    \/ \E slot \in DOMAIN reads : wait_for_bytes(slot)
    \/ \E slot \in DOMAIN reads : \E ok \in BOOLEAN : release_bytes(slot, ok)
    \/ GatherReads
    \/ TransformStructure

SpecGov == Init /\ [][NextGov]_vars

(***************************************************************************)
(* Restore calls one after the other on one handler.                       *)
(***************************************************************************)
RepeatedLeaves ==
    ({Value("int", 1)} \X {NoSaveArgs, SaveArgs(TRUE, NoDtype)})
    \cup {<<EmptyNode, NoSaveArgs>>}

RepeatedSaves == TreesOver({KA, KB}, RepeatedLeaves) \ {<<>>}

\* a call without a target, and calls that rename 'a' to 'b'
RepeatedCalls ==
    {LimiterCall}
    \cup {[directory |-> Directory,
           item |-> Some([k \in {KB} |-> CallerValue]),
           restore_args |-> Some([k \in {KB} |-> ArgsAt(k)]),
           transforms |-> Some(<<[key |-> KB, transform |-> Rename(<<"a">>)]>>),
           transforms_default_to_original |-> b] : b \in BOOLEAN}

NextRepeated ==
    \/ \E s \in RepeatedSaves :
          Save([k \in DOMAIN s |-> s[k][1]], [k \in DOMAIN s |-> s[k][2]])
    \/ \E c \in RepeatedCalls : RestoreCallWithin(c, CallsInARow)
    \/ RestoreSteps

SpecRepeated == Init /\ [][NextRepeated]_vars

(***************************************************************************)
(* save() run by NumProcesses processes on the same item, and the          *)
(* restore() each of them makes afterwards.                                *)
(***************************************************************************)
Processes == 0..(NumProcesses - 1)

\* created: the directories the process has made; arrived, passed: where it
\* stands at the barrier after directory creation; dispatched: whether it
\* has called serialize, and dirs_seen, the directories on disk when it did;
\* serialize_calls: the handler.serialize calls made; copied: whether their
\* gather has been awaited; commit_futures and handles: lines 619-625;
\* awaited: the handles save() has blocked on; hit: a collaborator raised in
\* this process (ghost).
StartProcess ==
    [pc |-> "get_param_infos", created |-> {}, arrived |-> FALSE, passed |-> FALSE,
     dispatched |-> FALSE, dirs_seen |-> {}, called_aggregate |-> FALSE,
     wrote_aggregate |-> FALSE, error |-> "",
     serialize_calls |-> 0, copied |-> FALSE, commit_futures |-> <<>>,
     handles |-> <<>>, awaited |-> 0, hit |-> FALSE,
     arrived_save |-> FALSE, passed_save |-> FALSE,
     arrived_restore |-> FALSE, passed_restore |-> FALSE, restored |-> <<>>]

\* What lines 583-611 compute from the arguments, the same in every process.
MultiPlan == msave.plan

\* The caller has created the checkpoint directory; every process calls
\* save with the same arguments.
BeginSave(item, save_args_in) ==
    /\ pc = "idle"
    /\ ~msave.started
    /\ ~disk.exists
    /\ msave' = [started |-> TRUE, item |-> item, save_args |-> save_args_in,
                 plan |-> SavePlan(Directory, item, save_args_in),
                 proc |-> [p \in Processes |-> StartProcess]]
    /\ disk' = [NoDisk EXCEPT !.exists = TRUE]
    /\ UNCHANGED <<gov, reads, config, saved, pc, call, work, events, outcome,
                   limiters, ncalls>>

\* lines 583-592
GetParamInfos(p) ==
    /\ msave.started
    /\ msave.proc[p].pc = "get_param_infos"
    /\ msave' = [msave EXCEPT ![
           "proc"][p] =
               IF MultiPlan.empty_item
               THEN [@ EXCEPT !.pc = "raised", !.error = "ValueError"]
               ELSE IF creates_param_dirs(config.use_ocdbt,
                                          MultiPlan.all_params_aggregated)
               THEN [@ EXCEPT !.pc = "create_param_save_dirs"]
               ELSE [@ EXCEPT !.pc = "serialize"]]
    /\ UNCHANGED <<gov, reads, config, disk, saved, pc, call, work, events, outcome,
                   limiters, ncalls>>

\* lines 593-600: the process has awaited its _create_param_save_dir calls;
\* async_makedirs may raise in the process that makes the directories (~ok)
CreateParamSaveDirs(p, ok) ==
    LET dirs == CreatedDirs(MultiPlan, p)
    IN /\ msave.started
       /\ msave.proc[p].pc = "create_param_save_dirs"
       /\ ~ok => dirs # {}
       /\ IF ok
          THEN /\ disk' = [disk EXCEPT !.dirs = @ \cup dirs]
               /\ msave' = [msave EXCEPT !["proc"][p] =
                               [@ EXCEPT !.pc = "sync_global_devices", !.created = dirs,
                                         !.arrived = TRUE]]
          ELSE /\ UNCHANGED disk
               /\ msave' = [msave EXCEPT !["proc"][p] =
                               [@ EXCEPT !.pc = "raised", !.error = "OSError",
                                         !.hit = TRUE]]
       /\ UNCHANGED <<gov, reads, config, saved, pc, call, work, events, outcome,
                      limiters, ncalls>>

\* The three barriers: after directory creation (line 601), at the end of
\* save (line 650) and at the end of restore (line 776).
Barriers == {"sync_global_devices", "sync_save", "sync_restore"}

Arrived(q, barrier) ==
    CASE barrier = "sync_global_devices" -> msave.proc[q].arrived
      [] barrier = "sync_save" -> msave.proc[q].arrived_save
      [] barrier = "sync_restore" -> msave.proc[q].arrived_restore

\* utils.sync_global_devices: the barrier lets a process go once every
\* process is there
sync_global_devices(p) ==
    LET barrier == msave.proc[p].pc
    IN /\ msave.started
       /\ barrier \in Barriers
       /\ \A q \in Processes : Arrived(q, barrier)
       /\ msave' = [msave EXCEPT !["proc"][p] =
                       CASE barrier = "sync_global_devices" ->
                                [@ EXCEPT !.pc = "serialize", !.passed = TRUE]
                         [] barrier = "sync_save" ->
                                [@ EXCEPT !.pc = "saved", !.passed_save = TRUE]
                         [] barrier = "sync_restore" ->
                                [@ EXCEPT !.pc = "restored", !.passed_restore = TRUE]]
       /\ UNCHANGED <<gov, reads, config, disk, saved, pc, call, work, events, outcome,
                      limiters, ncalls>>

\* The barrier is bounded in time: a process waiting for a process that has
\* raised without arriving leaves the barrier with an error.
barrier_timeout(p) ==
    LET barrier == msave.proc[p].pc
    IN /\ msave.started
       /\ barrier \in Barriers
       /\ \E q \in Processes : msave.proc[q].pc = "raised" /\ ~Arrived(q, barrier)
       /\ msave' = [msave EXCEPT !["proc"][p] =
                       [@ EXCEPT !.pc = "raised", !.error = "BarrierError"]]
       /\ UNCHANGED <<gov, reads, config, disk, saved, pc, call, work, events, outcome,
                      limiters, ncalls>>

\* lines 605-617: the serialize calls of the batch requests
Serialize(p) ==
    LET requests == MultiPlan.batch_requests
    IN /\ msave.started
       /\ msave.proc[p].pc = "serialize"
       /\ IF MultiPlan.all_params_aggregated
          THEN /\ msave' = [msave EXCEPT !["proc"][p] =
                               [@ EXCEPT !.pc = "write_aggregate_file"]]
               /\ UNCHANGED disk
          ELSE IF MultiPlan.unregistered
          THEN /\ msave' = [msave EXCEPT !["proc"][p] =
                               [@ EXCEPT !.pc = "raised", !.error = "ValueError"]]
               /\ UNCHANGED disk
          ELSE \E files \in FileOutcomes(requests) :
               /\ disk' = [disk EXCEPT !.files = files @@ @]
               /\ msave' = [msave EXCEPT !["proc"][p] =
                               [@ EXCEPT !.pc = "gather",
                                         !.dispatched = TRUE,
                                         !.serialize_calls = Len(requests),
                                         !.dirs_seen = disk.dirs]]
       /\ UNCHANGED <<gov, reads, config, saved, pc, call, work, events, outcome,
                      limiters, ncalls>>

\* TypeHandler.serialize returns one commit future per value; line 620
\* flattens the lists of the requests, in request order.
RECURSIVE CommitFutures(_)
CommitFutures(requests) ==
    IF requests = <<>> THEN <<>>
    ELSE [i \in 1..Len(Head(requests).infos) |->
             [kind |-> "codec", path |-> Head(requests).infos[i].path]]
         \o CommitFutures(Tail(requests))

\* lines 618-620: the copy phase of every serialize call is awaited; a codec
\* that raises in this process (~ok) makes the gather raise
GatherSerializeOps(p, ok) ==
    /\ msave.started
    /\ msave.proc[p].pc = "gather"
    /\ msave' = [msave EXCEPT !["proc"][p] =
                    IF ok
                    THEN [@ EXCEPT !.pc = "write_aggregate_file", !.copied = TRUE,
                                   !.commit_futures =
                                       CommitFutures(MultiPlan.batch_requests)]
                    ELSE [@ EXCEPT !.pc = "raised", !.error = "CodecFailure",
                                   !.hit = TRUE]]
    /\ UNCHANGED <<gov, reads, config, disk, saved, pc, call, work, events, outcome,
                   limiters, ncalls>>

\* MsgpackHandler.serialize: the file is written by process 0.
aggregate_handler_writes(process_index) == process_index = 0

AggregateFuture == [kind |-> "aggregate", path |-> PathJoin(Directory, <<"checkpoint">>)]

\* A variant that returns the codec futures only.
returned_futures_codec_only(commit_futures, aggregate_commit_future) == commit_futures

\* line 625
returned_futures(commit_futures, aggregate_commit_future) == commit_futures \o <<aggregate_commit_future>>

\* lines 542-552, 622-625: every process builds the tree for the aggregate
\* file, calls the aggregate handler and returns the futures
_write_aggregate_file(p) ==
    LET writes == aggregate_handler_writes(p)
    IN /\ msave.started
       /\ msave.proc[p].pc = "write_aggregate_file"
       /\ IF MultiPlan.not_replicated
          THEN /\ UNCHANGED disk
               /\ msave' = [msave EXCEPT !["proc"][p] =
                               [@ EXCEPT !.pc = "raised", !.error = "ValueError"]]
          ELSE /\ disk' = IF writes
                          THEN [disk EXCEPT !.has_aggregate = TRUE,
                                            !.aggregate = MultiPlan.ser_item]
                          ELSE disk
               /\ msave' = [msave EXCEPT !["proc"][p] =
                               [@ EXCEPT !.pc = "returned", !.called_aggregate = TRUE,
                                         !.wrote_aggregate = writes,
                                         !.handles = returned_futures(
                                             msave.proc[p].commit_futures,
                                             AggregateFuture)]]
       /\ UNCHANGED <<gov, reads, config, saved, pc, call, work, events, outcome,
                      limiters, ncalls>>

\* A variant that ignores what the future raises.
future_result_swallowed(ok) == FALSE

\* line 647: future.result() raises what the commit raised
future_result_raises(ok) == ~ok

\* A variant that blocks on the first handle only.
all_awaited_first_only(awaited, handles) == awaited >= 1

\* lines 646-647: the loop has gone through every future
all_awaited(awaited, handles) == awaited = Len(handles)

\* lines 645-650: save() blocks on the next handle; after the last one it
\* calls the barrier
future_result(p, ok) ==
    /\ msave.started
    /\ msave.proc[p].pc = "returned"
    /\ msave' = [msave EXCEPT !["proc"][p] =
                    IF future_result_raises(ok)
                    THEN [@ EXCEPT !.pc = "raised", !.error = "CommitFailure",
                                   !.hit = TRUE]
                    ELSE IF all_awaited(msave.proc[p].awaited + 1, msave.proc[p].handles)
                    THEN [@ EXCEPT !.awaited = @ + 1, !.hit = @ \/ ~ok,
                                   !.pc = "sync_save", !.arrived_save = TRUE]
                    ELSE [@ EXCEPT !.awaited = @ + 1, !.hit = @ \/ ~ok]]
    /\ UNCHANGED <<gov, reads, config, disk, saved, pc, call, work, events, outcome,
                   limiters, ncalls>>

\* lines 729-776: restore(directory) with every other argument at its
\* default, up to the barrier; a codec that raises in this process (~ok)
\* makes the gather of the reads raise
RestoreToBarrier(p, ok) ==
    /\ msave.started
    /\ msave.proc[p].pc = "saved"
    /\ \E saved_structure \in {IF disk.has_aggregate THEN disk.aggregate
                                ELSE pytree_structure(disk)} :
       \E parameters \in {_get_restore_parameters(Directory, None, saved_structure,
                                                   None, None, 1, TRUE)} :
       \E read \in {IF parameters.error # ""
                     THEN [error |-> parameters.error, batch_requests |-> <<>>,
                           restored |-> <<>>]
                     ELSE _maybe_deserialize(disk.files, saved_structure,
                                             parameters.param_infos,
                                             parameters.restore_args)} :
       \E shaped \in {IF read.error # "" THEN [error |-> read.error, tree |-> <<>>]
                       ELSE IF ~ok THEN [error |-> "CodecFailure", tree |-> <<>>]
                       ELSE _transform_structure(None, read.restored, None, None, TRUE,
                                                 "new")} :
          /\ ~ok => read.error = "" /\ read.batch_requests # <<>>
          /\ msave' = [msave EXCEPT !["proc"][p] =
                          IF ~disk.has_aggregate /\ config.use_ocdbt
                          THEN [@ EXCEPT !.pc = "raised", !.error = "ValueError"]
                          ELSE IF shaped.error # ""
                          THEN [@ EXCEPT !.pc = "raised", !.error = shaped.error,
                                         !.hit = ~ok]
                          ELSE [@ EXCEPT !.pc = "sync_restore",
                                         !.arrived_restore = TRUE,
                                         !.restored = shaped.tree]]
    /\ UNCHANGED <<gov, reads, config, disk, saved, pc, call, work, events, outcome,
                   limiters, ncalls>>

\* What one process does next.
ProcessStep(p) ==
    \/ GetParamInfos(p)
    \/ \E ok \in BOOLEAN : CreateParamSaveDirs(p, ok)
    \/ sync_global_devices(p)
    \/ barrier_timeout(p)
    \/ Serialize(p)
    \/ \E ok \in BOOLEAN : GatherSerializeOps(p, ok)
    \/ _write_aggregate_file(p)
    \/ \E ok \in BOOLEAN : future_result(p, ok)
    \/ \E ok \in BOOLEAN : RestoreToBarrier(p, ok)

\* "other" is a type without a type handler that the aggregate file cannot
\* hold; "sharded" a jax.Array that is not fully replicated.
MultiSaveLeaves ==
    ({Value("int", v) : v \in 1..MaxVal} \X {NoSaveArgs, SaveArgs(TRUE, NoDtype)})
    \cup {<<Value("int", 1), SaveArgs(TRUE, "float32")>>}
    \cup ({Value("other", 1)} \X {NoSaveArgs, SaveArgs(FALSE, NoDtype)})
    \cup ({Value("sharded", 1)} \X {NoSaveArgs, SaveArgs(TRUE, NoDtype)})

MultiSaves == TreesOver({KA, KAB, KB}, MultiSaveLeaves)

NextSave ==
    \/ \E s \in MultiSaves :
          BeginSave([k \in DOMAIN s |-> s[k][1]], [k \in DOMAIN s |-> s[k][2]])
    \/ \E p \in Processes : ProcessStep(p)

SpecSave == Start(BOOLEAN) /\ [][NextSave]_vars

\* Saves of one individually stored leaf, alone or next to an aggregated one.
LiveSaves ==
    {s \in MultiSaves :
        /\ KA \in DOMAIN s /\ s[KA] = <<Value("int", 1), NoSaveArgs>>
        /\ \A k \in DOMAIN s \ {KA} :
              k = KB /\ s[k] = <<Value("int", 1), SaveArgs(TRUE, NoDtype)>>}

NextLive ==
    \/ \E s \in LiveSaves :
          BeginSave([k \in DOMAIN s |-> s[k][1]], [k \in DOMAIN s |-> s[k][2]])
    \/ \E p \in Processes : ProcessStep(p)

\* Every process keeps running: a step it can take, it takes.
SpecLive ==
    Init /\ [][NextLive]_vars /\ \A p \in Processes : WF_vars(ProcessStep(p))

(***************************************************************************)
(* Claims.                                                                 *)
(***************************************************************************)
\* The running or last restore call was made on a checkpoint that a save
\* had written without error.
OnSavedCheckpoint ==
    /\ ncalls > 0
    /\ call.directory = Directory
    /\ work.saved.done
    /\ work.saved.error = ""

CallEnded == ncalls > 0 /\ pc = "idle"

\* The value save() stored for key k: the leaf, cast to the dtype of its
\* SaveArgs.
StoredValue(k) ==
    _try_array_cast(work.saved.item[k],
                    _maybe_set_default_save_args(work.saved.item[k],
                                                 work.saved.save_args[k]).dtype)

DistinctNames(item) ==
    \A j \in DOMAIN item : \A k \in DOMAIN item :
        _param_name_from_keypath(j) = _param_name_from_keypath(k) => j = k

RoundTripHolds ==
    /\ outcome.status = "returned"
    /\ DOMAIN outcome.tree = DOMAIN work.saved.item
    /\ \A k \in DOMAIN work.saved.item : outcome.tree[k] = StoredValue(k)

\* C1: a tree saved with save() and restored with no item, no restore_args
\* and no transforms comes back with the same key paths and, at each, the
\* value that was saved.
C1_RoundTrip ==
    (CallEnded /\ OnSavedCheckpoint /\ ~call.item.some /\ ~call.restore_args.some
        /\ ~call.transforms.some)
    => RoundTripHolds

\* The round trip of a tree no two of whose key paths share a dot-joined name.
C1_RoundTripDistinctNames ==
    (CallEnded /\ OnSavedCheckpoint /\ ~call.item.some /\ ~call.restore_args.some
        /\ ~call.transforms.some /\ DistinctNames(work.saved.item))
    => RoundTripHolds

\* Saved key k was handed to a type handler's deserialize by the running or
\* last restore call.
Fetched(k) ==
    /\ \E r \in 1..Len(work.batch_requests) : k \in Range(work.batch_requests[r].keys)
    /\ \E e \in 1..Len(events) : events[e].op = "deserialize"

IndividuallyStored(k) ==
    ~_maybe_set_default_save_args(work.saved.item[k], work.saved.save_args[k]).aggregate

\* C2: restore() on a directory that does not exist raises the not-found
\* error before any collaborator is touched: no byte limiter is created, the
\* aggregate file is not read, no deserialize is dispatched and no barrier is
\* entered.
C2_NotFoundFirst ==
    (ncalls > 0 /\ pc # "check_exists"
        /\ (call.directory = MissingDirectory \/ ~work.saved.done))
    => /\ pc = "idle"
       /\ outcome = Raise("FileNotFoundError")
       /\ events = <<>>
       /\ work.byte_limiter = 0
       /\ work.structure = <<>>

\* A call on a missing directory has ended while a checkpoint exists elsewhere.
C2_Witness ==
    /\ CallEnded
    /\ call.directory = MissingDirectory
    /\ saved.done
    /\ outcome.error = "FileNotFoundError"

\* A restore call with a target item and no transforms has returned.
PlainTargetReturned ==
    /\ CallEnded
    /\ OnSavedCheckpoint
    /\ call.item.some
    /\ ~call.transforms.some
    /\ outcome.status = "returned"

\* C3 as stated: with a target item and no transforms, a saved key absent
\* from the target is absent from the result and is never fetched, and a
\* saved key present in the target is returned with its saved value.
C3_DropNeverFetched ==
    PlainTargetReturned
    => \A k \in DOMAIN work.saved.item :
          IF k \in DOMAIN call.item.v
          THEN k \in DOMAIN outcome.tree /\ outcome.tree[k] = StoredValue(k)
          ELSE k \notin DOMAIN outcome.tree /\ ~Fetched(k)

\* What the store holds for saved key k when the call begins: the file at
\* the leaf's path, or the entry of the aggregate file.
HeldValue(k) ==
    IF IndividuallyStored(k)
    THEN disk.files[PathJoin(Directory, _param_name_from_keypath(k))]
    ELSE disk.aggregate[k]

\* The saved keys that share the dot-joined name of k.
NameSakes(k) ==
    {j \in DOMAIN work.saved.item :
        _param_name_from_keypath(j) = _param_name_from_keypath(k)}

\* What a read of saved key k yields: the held value, cast as the
\* RestoreArgs of the call ask.
ReadValue(k) ==
    IF IsEmptyNode(HeldValue(k)) THEN HeldValue(k)
    ELSE _try_array_cast(HeldValue(k), work.restore_args[k].dtype)

\* C3 amended: with a target item and no transforms, a saved key absent
\* from the target is absent from the result, every individually stored
\* saved key is fetched whether the target has it or not, and a saved key
\* present in the target is returned with the value the store holds for it
\* or for a saved key of the same dot-joined name.
C3_DropStillFetched ==
    PlainTargetReturned
    => /\ DOMAIN outcome.tree = DOMAIN call.item.v
       /\ \A k \in DOMAIN work.saved.item :
             /\ IndividuallyStored(k) /\ ~IsEmptyNode(work.saved.item[k])
                    => Fetched(k)
             /\ k \in DOMAIN call.item.v
                    => outcome.tree[k] \in {ReadValue(j) : j \in NameSakes(k)}

\* A returned call whose target lacks an individually stored saved key.
C3_Witness ==
    /\ PlainTargetReturned
    /\ \E k \in DOMAIN work.saved.item \ DOMAIN call.item.v :
          IndividuallyStored(k) /\ Fetched(k) /\ k \notin DOMAIN outcome.tree
    /\ \E k \in DOMAIN call.item.v : outcome.tree[k] = StoredValue(k)

\* A restore call with transforms has returned.
TransformReturned ==
    /\ CallEnded
    /\ OnSavedCheckpoint
    /\ call.item.some
    /\ call.transforms.some
    /\ outcome.status = "returned"

\* Saved key k is in the target item too and a use_fallback rule covers it.
FallbackKey(k) ==
    /\ k \in DOMAIN work.saved.item
    /\ k \in DOMAIN call.item.v
    /\ \E i \in 1..Len(call.transforms.v) :
          /\ call.transforms.v[i].transform.use_fallback
          /\ re_fullmatch(_keystr(call.transforms.v[i].key), _keystr(k)).matched

NoRuleReads(k) ==
    _find_matching_input_args(k, call.item.v, call.transforms.v,
                              call.restore_args.v).status = "none"

RenameMaps(e, o, k) ==
    LET match == re_fullmatch(_keystr(e.key), _keystr(o))
    IN /\ ~e.transform.use_fallback
       /\ ~e.transform.multi_value_fn
       /\ match.matched
       /\ _keystr(k) = IF e.transform.original_key.some
                       THEN match_expand(match, e.transform.original_key.v)
                       ELSE _keystr(o)

\* The ParamInfo of saved key k was made from the saved leaf.
InfoFromLeaf(k) ==
    /\ work.param_infos[k].isinfo
    /\ work.param_infos[k].name = _param_name_from_keypath(k)
    /\ IndividuallyStored(k) => ~work.param_infos[k].skip_deserialize /\ Fetched(k)

C5_RenameSingleRule ==
    (TransformReturned /\ Len(call.transforms.v) = 1)
    => \A o \in DOMAIN call.item.v :
       \A k \in DOMAIN work.saved.item :
          RenameMaps(call.transforms.v[1], o, k)
          => /\ InfoFromLeaf(k)
             /\ work.restore_args[k] = call.restore_args.v[o]
             /\ outcome.tree[o] = _try_array_cast(StoredValue(k),
                                                  call.restore_args.v[o].dtype)

\* The entries of the input map of rule e whose regex matches saved key k.
MergeInputs(e, k) ==
    IF e.transform.multi_value_fn /\ e.transform.multi_value_fn_input_args.some
    THEN {j \in 1..Len(e.transform.multi_value_fn_input_args.v) :
            re_fullmatch(e.transform.multi_value_fn_input_args.v[j].regex,
                         _keystr(k)).matched}
    ELSE {}

\* The merge of the saved values of the keys that rule e takes as inputs.
MergedSaved(e) ==
    LET stored == [k \in DOMAIN work.saved.item |-> StoredValue(k)]
    IN SumVals(stored, {k \in DOMAIN stored : MergeInputs(e, k) # {}})

\* C6 as stated: a saved key matched by a regex of a rule's input map is
\* fetched with the RestoreArgs mapped to a matching regex, in the target or
\* not, and the result holds at the rule's key the merge of the fetched
\* leaves.
C6_MultiMerge ==
    TransformReturned
    => \A i \in 1..Len(call.transforms.v) :
          LET e == call.transforms.v[i]
          IN /\ \A k \in DOMAIN work.saved.item :
                   MergeInputs(e, k) # {}
                   => /\ InfoFromLeaf(k)
                      /\ \E j \in MergeInputs(e, k) :
                            work.restore_args[k] =
                                e.transform.multi_value_fn_input_args.v[j].args
             /\ e.transform.multi_value_fn /\ e.key \in DOMAIN call.item.v
                   => outcome.tree[e.key].val = MergedSaved(e)

\* The rule with the multi_value_fn is the only rule of the call.
C6_MultiMergeSingleRule ==
    (TransformReturned /\ Len(call.transforms.v) = 1)
    => LET e == call.transforms.v[1]
       IN /\ \A k \in DOMAIN work.saved.item :
                MergeInputs(e, k) # {}
                => /\ InfoFromLeaf(k)
                   /\ \E j \in MergeInputs(e, k) :
                         work.restore_args[k] =
                             e.transform.multi_value_fn_input_args.v[j].args
          /\ e.transform.multi_value_fn /\ e.key \in DOMAIN call.item.v
                => outcome.tree[e.key].val = MergedSaved(e)

Reverse(seq) == [i \in 1..Len(seq) |-> seq[Len(seq) + 1 - i]]

\* The RestoreArgs of the saved keys have been chosen.
ArgsChosen ==
    /\ ncalls > 0
    /\ call.item.some
    /\ call.transforms.some
    /\ pc \in {"maybe_deserialize", "transform_structure"}

\* C7 as stated: a saved key matched by a MultiMerge input regex and by a
\* rename rule gets the RestoreArgs of the MultiMerge entry, and the
\* RestoreArgs chosen for a saved key are the same when the rules are
\* iterated in the reverse order.
C7_OrderIndependent ==
    ArgsChosen
    => \A k \in DOMAIN work.structure :
          /\ \A i \in 1..Len(call.transforms.v) :
                (/\ MergeInputs(call.transforms.v[i], k) # {}
                 /\ \E r \in 1..Len(call.transforms.v) :
                    \E o \in DOMAIN call.item.v :
                        RenameMaps(call.transforms.v[r], o, k))
                => \E j \in MergeInputs(call.transforms.v[i], k) :
                      work.restore_args[k] =
                          call.transforms.v[i].transform.multi_value_fn_input_args.v[j].args
          /\ work.restore_args[k] =
                 KeyParameters(call.directory, work.byte_limiter, k, work.structure[k],
                               call.item.v, work.structure,
                               Reverse(call.transforms.v), call.restore_args.v,
                               call.transforms_default_to_original).args

RECURSIVE SumBytes(_, _)
SumBytes(tasks, slots) ==
    IF slots = {} THEN 0
    ELSE LET slot == CHOOSE x \in slots : TRUE
         IN tasks[slot].bytes + SumBytes(tasks, slots \ {slot})

\* The declared bytes of the reads that hold an allowance.
InFlightBytes == SumBytes(reads, {slot \in DOMAIN reads : reads[slot].state = "in_flight"})

\* C8: during a restore call the declared bytes of the reads that have
\* acquired an allowance and not released it never exceed concurrent_gb *
\* 10^9; what the limiter has available is its budget less those bytes, so
\* an allowance is given back when a read completes and when it fails; and
\* every read of the call goes through the one limiter of the call.
C8_ByteBudget ==
    /\ InFlightBytes <= config.concurrent_gb * BytesPerGb
    /\ pc = "gather" => gov.available_bytes = gov.max_bytes - InFlightBytes
    /\ pc = "gather" => gov.max_bytes = config.concurrent_gb * BytesPerGb
    /\ \A slot \in DOMAIN reads : reads[slot].limiter = work.byte_limiter

\* A read waits for bytes that reads in flight hold, after a read has failed
\* and given its bytes back.
C8_Witness ==
    /\ pc = "gather"
    /\ \E slot \in DOMAIN reads :
          /\ reads[slot].state = "waiting"
          /\ reads[slot].bytes > gov.available_bytes
    /\ \E slot \in DOMAIN reads : reads[slot].state = "in_flight"
    /\ \E slot \in DOMAIN reads : reads[slot].state = "failed"

\* The directories of the individually stored leaves of the running save.
LeafDirs ==
    {PathJoin(Directory, _param_name_from_keypath(k)) :
        k \in {j \in DOMAIN msave.item :
                  ~_maybe_set_default_save_args(msave.item[j],
                                                msave.save_args[j]).aggregate}}

\* C9 as stated: in every configuration a process that dispatches serialize
\* calls has passed the barrier, and every leaf directory exists by then.
C9_BarrierAlways ==
    msave.started
    => \A p \in Processes :
          msave.proc[p].dispatched
          => msave.proc[p].passed /\ LeafDirs \subseteq msave.proc[p].dirs_seen

\* C9 amended: with use_ocdbt false a process that dispatches serialize
\* calls has passed the barrier, and every leaf directory exists by then;
\* with use_ocdbt true no directory is created and no barrier is entered.
C9_BarrierUnlessOcdbt ==
    msave.started
    => \A p \in Processes :
          IF config.use_ocdbt
          THEN /\ ~msave.proc[p].arrived
               /\ ~msave.proc[p].passed
               /\ msave.proc[p].created = {}
               /\ disk.dirs = {}
          ELSE msave.proc[p].dispatched
               => msave.proc[p].passed /\ LeafDirs \subseteq msave.proc[p].dirs_seen

\* With use_ocdbt false a process other than 0 has dispatched its serialize
\* calls behind the barrier.
C9_Witness ==
    /\ msave.started
    /\ ~config.use_ocdbt
    /\ LeafDirs # {}
    /\ \E p \in Processes \ {0} :
          msave.proc[p].dispatched /\ msave.proc[p].passed

\* C10: only process 0 creates leaf directories and writes the aggregate
\* file; process 0 does both before it returns; a process other than 0
\* does neither, and where directories are created it does not dispatch
\* before it has passed the barrier.
C10_SingleWriter ==
    msave.started
    => /\ \A p \in Processes \ {0} :
             /\ msave.proc[p].created = {}
             /\ ~msave.proc[p].wrote_aggregate
             /\ (~config.use_ocdbt /\ msave.proc[p].dispatched) => msave.proc[p].passed
       /\ msave.proc[0].pc = "returned"
             => /\ msave.proc[0].wrote_aggregate
                /\ ~config.use_ocdbt => msave.proc[0].created = LeafDirs
       /\ disk.dirs \subseteq msave.proc[0].created
       /\ disk.has_aggregate => msave.proc[0].wrote_aggregate

\* Every process has returned from a save that created leaf directories.
C10_Witness ==
    /\ msave.started
    /\ \A p \in Processes : msave.proc[p].pc = "returned"
    /\ msave.proc[0].created # {}
    /\ msave.proc[0].wrote_aggregate
    /\ \E p \in Processes \ {0} : msave.proc[p].called_aggregate

\* Process p waits at barrier b for a process that has raised without
\* arriving there.
WaitsForRaised(p, b) ==
    /\ msave.started
    /\ msave.proc[p].pc = b
    /\ \E q \in Processes : msave.proc[q].pc = "raised" /\ ~Arrived(q, b)

SaveReturned(p) == msave.proc[p].pc \in {"saved", "sync_restore", "restored"}

\* C12: save() returns in a process only after every handle async_save
\* returned has been blocked on in that process and the barrier has been
\* passed, and the process enters the barrier only after all its handles
\* have completed.
C12_BlockingSave ==
    msave.started
    => \A p \in Processes :
          /\ SaveReturned(p) => msave.proc[p].passed_save
          /\ msave.proc[p].passed_save
                => \A q \in Processes : msave.proc[q].arrived_save
          /\ msave.proc[p].arrived_save
                => /\ msave.proc[p].handles # <<>>
                   /\ msave.proc[p].awaited = Len(msave.proc[p].handles)

\* Every process has returned from a save() that had codec handles to block
\* on.
C12_Witness ==
    /\ msave.started
    /\ \A p \in Processes :
          /\ msave.proc[p].pc = "saved"
          /\ Len(msave.proc[p].handles) >= 2
          /\ msave.proc[p].awaited = Len(msave.proc[p].handles)

\* The keys of the individually stored leaves of the running save.
IndividualKeys ==
    {k \in DOMAIN msave.item :
        ~_maybe_set_default_save_args(msave.item[k], msave.save_args[k]).aggregate}

\* C13: a process holds handles only after it has called serialize for
\* every batch request, awaited the copies and called the aggregate handler;
\* the handles are one per individually stored leaf, all of the codecs, and
\* then exactly one of the aggregate file; a process whose codec raised holds
\* none.
C13_CompletionHandles ==
    msave.started
    => \A p \in Processes :
          LET handles == msave.proc[p].handles
              n == Len(handles)
          IN /\ handles # <<>>
                   => /\ msave.proc[p].called_aggregate
                      /\ IndividualKeys # {}
                            => /\ msave.proc[p].dispatched
                               /\ msave.proc[p].serialize_calls >= 1
                               /\ msave.proc[p].copied
                      /\ n = Cardinality(IndividualKeys) + 1
                      /\ handles[n].kind = "aggregate"
                      /\ \A i \in 1..(n - 1) : handles[i].kind = "codec"
                      /\ {handles[i].path : i \in 1..(n - 1)} = LeafDirs
             /\ ~msave.proc[p].called_aggregate => handles = <<>>
             /\ (msave.proc[p].hit /\ ~msave.proc[p].copied /\ msave.proc[p].dispatched)
                   => msave.proc[p].pc = "raised" /\ handles = <<>>

\* One process holds codec handles and the aggregate handle while the codec
\* of another has raised.
C13_Witness ==
    /\ msave.started
    /\ \E p \in Processes : \E q \in Processes :
          /\ msave.proc[p].pc = "returned"
          /\ Len(msave.proc[p].handles) >= 2
          /\ msave.proc[q].pc = "raised"
          /\ msave.proc[q].error = "CodecFailure"
          /\ msave.proc[q].handles = <<>>

\* C14: when every leaf's SaveArgs, defaults filled in, has aggregate true,
\* a process creates no directory, enters no barrier of directory creation,
\* makes no serialize call and returns exactly one handle, the one of the
\* aggregate file; when a leaf has aggregate false, a process that returns
\* handles has dispatched the serialize calls of the batch requests.
C14_AllAggregatedFastPath ==
    msave.started
    => \A p \in Processes :
          IF IndividualKeys = {}
          THEN /\ msave.proc[p].created = {}
               /\ ~msave.proc[p].arrived
               /\ ~msave.proc[p].dispatched
               /\ msave.proc[p].serialize_calls = 0
               /\ disk.dirs = {} /\ disk.files = <<>>
               /\ msave.proc[p].handles # <<>>
                     => /\ Len(msave.proc[p].handles) = 1
                        /\ msave.proc[p].handles[1].kind = "aggregate"
          ELSE msave.proc[p].handles # <<>>
               => /\ msave.proc[p].dispatched
                  /\ msave.proc[p].serialize_calls >= 1
                  /\ Len(msave.proc[p].handles) >= 2

\* Every leaf is aggregated and a process has returned its single handle.
C14_Witness ==
    /\ msave.started
    /\ IndividualKeys = {}
    /\ Cardinality(DOMAIN msave.item) = 2
    /\ \E p \in Processes :
          /\ msave.proc[p].pc = "returned"
          /\ Len(msave.proc[p].handles) = 1
    /\ disk.has_aggregate

\* The keys of the running save whose leaf is an array that is not fully
\* replicated and whose SaveArgs say aggregate true.
UnreplicatedAggregateKeys ==
    {k \in DOMAIN msave.item :
        /\ msave.item[k].kind = "sharded"
        /\ msave.save_args[k].isargs
        /\ msave.save_args[k].aggregate}

\* The keys of the running save whose leaf has a type without a type
\* handler that the aggregate file cannot hold.
UnsupportedKeys ==
    {k \in DOMAIN msave.item :
        /\ ~has_type_handler(msave.item[k].kind)
        /\ ~is_supported_aggregation_type(msave.item[k])}

\* Process p has made no serialize call and no call of the aggregate
\* handler, and holds no handle.
NothingDispatched(p) ==
    /\ ~msave.proc[p].dispatched
    /\ msave.proc[p].serialize_calls = 0
    /\ ~msave.proc[p].called_aggregate
    /\ msave.proc[p].handles = <<>>

\* C19 as stated: a save of a tree with a leaf of an unsupported type
\* dispatches no I/O, returns in no process, and the leaf is not replaced by
\* another value in the aggregate file.
C19_UnsupportedRaises ==
    (msave.started /\ UnsupportedKeys # {})
    => /\ \A p \in Processes : NothingDispatched(p) /\ msave.proc[p].created = {}
       /\ disk.dirs = {} /\ disk.files = <<>> /\ ~disk.has_aggregate

\* C19 amended: a leaf of an unsupported type whose SaveArgs say aggregate
\* false makes every process raise before any serialize call and before
\* the call of the aggregate handler (the leaf directories may have been
\* created); with no SaveArgs, or with aggregate true, the leaf raises
\* nothing and is written to the aggregate file as None.
C19_UnsupportedByArgs ==
    msave.started
    => \A k \in UnsupportedKeys :
          IF msave.save_args[k].isargs /\ ~msave.save_args[k].aggregate
          THEN /\ \A p \in Processes :
                     /\ NothingDispatched(p)
                     /\ msave.proc[p].pc \in {"get_param_infos", "create_param_save_dirs",
                                              "sync_global_devices", "serialize", "raised"}
               /\ disk.files = <<>> /\ ~disk.has_aggregate
          ELSE /\ disk.has_aggregate => disk.aggregate[k] = NoneValue
               /\ (IndividualKeys = {} /\ UnreplicatedAggregateKeys = {})
                     => \A p \in Processes : msave.proc[p].error # "ValueError"

\* A save has written None for a leaf of an unsupported type and returned
\* its handles.
C19_Witness ==
    /\ msave.started
    /\ \E k \in UnsupportedKeys : disk.has_aggregate /\ disk.aggregate[k] = NoneValue
    /\ \E p \in Processes : msave.proc[p].pc = "saved"

\* C20: when a leaf with aggregate true is an array that is not fully
\* replicated, no process calls the aggregate handler, no aggregate file is
\* written, no process holds handles, and a process that gets to the
\* aggregate write raises.
C20_ReplicationViolation ==
    (msave.started /\ UnreplicatedAggregateKeys # {})
    => /\ ~disk.has_aggregate
       /\ \A p \in Processes :
             /\ ~msave.proc[p].called_aggregate
             /\ ~msave.proc[p].wrote_aggregate
             /\ msave.proc[p].handles = <<>>
             /\ msave.proc[p].pc \in {"get_param_infos", "create_param_save_dirs",
                                      "sync_global_devices", "serialize", "gather",
                                      "write_aggregate_file", "raised"}

\* Every process has raised at the aggregate write, after the codec of
\* another leaf has written.
C20_Witness ==
    /\ msave.started
    /\ UnreplicatedAggregateKeys # {}
    /\ disk.files # <<>>
    /\ \A p \in Processes :
          /\ msave.proc[p].pc = "raised"
          /\ msave.proc[p].error = "ValueError"
          /\ msave.proc[p].copied


(***************************************************************************)
(* Restore calls whose arguments do not go together.                       *)
(***************************************************************************)
\* The reads the running call has made: of the aggregate file, and the
\* deserialize calls on type handlers.
IoEvents ==
    {i \in 1..Len(events) : events[i].op \in {"aggregate_deserialize", "deserialize"}}

\* The call was given transforms and no item.
WithoutItem == ncalls > 0 /\ call.transforms.some /\ ~call.item.some

\* C15: a restore() given transforms and no item never returns a tree: it
\* ends with an error.  On an existing checkpoint directory the error is the
\* ValueError of _get_restore_parameters, raised before a ParamInfo is built
\* and before a type handler is asked to deserialize, whatever was saved
\* (nothing included).
C15_TransformsWithoutItem ==
    (CallEnded /\ WithoutItem) =>
        /\ outcome.status = "raised"
        /\ outcome.tree = <<>>
        /\ work.saved.done =>
              /\ outcome.error = "ValueError"
              /\ work.param_infos = <<>>
              /\ \A i \in IoEvents : events[i].op # "deserialize"

\* Transforms without item on a checkpoint with an individually stored leaf
\* that a rule of the call would fetch.
C15_Witness ==
    /\ CallEnded
    /\ WithoutItem
    /\ work.saved.done
    /\ work.saved.error = ""
    /\ \E k \in DOMAIN work.saved.item : IndividuallyStored(k)
    /\ \E i \in 1..Len(call.transforms.v) :
          /\ call.transforms.v[i].transform.multi_value_fn
          /\ ~is_misused(call.transforms.v[i].transform)
          /\ call.transforms.v[i].transform.multi_value_fn_input_args.v # <<>>
    /\ outcome.error = "ValueError"

\* The call has a rule that _find_matching_input_args raises for.
HasMisusedRule ==
    /\ ncalls > 0
    /\ call.transforms.some
    /\ \E i \in 1..Len(call.transforms.v) : is_misused(call.transforms.v[i].transform)

\* The call ended with one of the configuration errors: transforms without
\* item, transforms without restore_args, or a misused multi_value_fn rule
\* met while the parameters of the saved keys were being determined.
ConfigErrorRaised ==
    /\ CallEnded
    /\ outcome.status = "raised"
    /\ outcome.error = "ValueError"
    /\ call.transforms.some
    /\ \/ ~call.item.some
       \/ ~call.restore_args.some
       \/ HasMisusedRule /\ work.structure # <<>> /\ work.param_infos = <<>>

\* C16: a restore() that ends with a configuration error has read nothing:
\* neither the aggregate file nor, through a type handler, a leaf.
C16_FailFast == ConfigErrorRaised => IoEvents = {}

\* C17: a restore() on a saved checkpoint whose transforms hold a
\* multi_value_fn rule without input arguments, or one that is not a
\* RestoreTransform, ends with an error, whatever the other rules, their
\* order and the saved keys.
C17_MisuseRaises ==
    (CallEnded /\ HasMisusedRule /\ OnSavedCheckpoint) => outcome.status = "raised"

\* The call has a RestoreTransform with a multi_value_fn and an empty map of
\* input arguments, and no rule that is misused otherwise.
HasEmptyInputArgs ==
    /\ ncalls > 0
    /\ call.transforms.some
    /\ ~HasMisusedRule
    /\ \E i \in 1..Len(call.transforms.v) :
          /\ call.transforms.v[i].transform.multi_value_fn
          /\ call.transforms.v[i].transform.multi_value_fn_input_args = Some(<<>>)

\* C18: a restore() on a saved checkpoint given a multi_value_fn rule whose
\* map of input arguments is empty ends with an error.
C18_EmptyMapRejected ==
    (CallEnded /\ HasEmptyInputArgs /\ OnSavedCheckpoint) => outcome.status = "raised"


(***************************************************************************)
(* The two ways a leaf is saved.                                           *)
(***************************************************************************)
\* The slots of the batch requests of the running save built from key k.
SlotsOf(k) ==
    {sl \in Slots(MultiPlan.batch_requests) :
        MultiPlan.batch_requests[sl[1]].keys[sl[2]] = k}

\* Some process has handed the tree for the aggregate file to the
\* aggregate handler.
HandedToAggregate ==
    msave.started /\ \E p \in Processes : msave.proc[p].called_aggregate

\* The tree for the aggregate file names the leaf at k, stored on its own.
HoldsPlaceholder(k) ==
    /\ leaf_is_placeholder(MultiPlan.ser_item[k])
    /\ name_from_leaf_placeholder(MultiPlan.ser_item[k]) = _param_name_from_keypath(k)

\* C21: for every leaf of a tree whose aggregate tree was handed to the
\* aggregate handler exactly one of two holds: the aggregate tree holds the
\* leaf's value and no batch request holds the leaf, or the aggregate tree
\* holds a placeholder with the leaf's name and exactly one slot of the
\* batch requests holds the leaf.
C21_Partition ==
    HandedToAggregate =>
        \A k \in DOMAIN msave.item :
            (MultiPlan.ser_item[k] = msave.item[k] /\ SlotsOf(k) = {})
            # (HoldsPlaceholder(k) /\ Cardinality(SlotsOf(k)) = 1)

\* What the aggregate file is given for an aggregated leaf: the value cast
\* to the dtype of its SaveArgs, and None for a value of a type it cannot
\* hold.
AggregateForm(k) ==
    _try_array_cast(IF is_supported_aggregation_type(msave.item[k]) THEN msave.item[k]
                    ELSE NoneValue,
                    MultiPlan.save_args[k].dtype)

\* C21 amended: as C21, the value in the aggregate tree being the leaf's
\* value cast to the dtype of its SaveArgs, or None when the leaf's type is
\* one the aggregate file cannot hold.
C21_PartitionStored ==
    HandedToAggregate =>
        \A k \in DOMAIN msave.item :
            /\ (MultiPlan.ser_item[k] = AggregateForm(k) /\ SlotsOf(k) = {})
               # (HoldsPlaceholder(k) /\ Cardinality(SlotsOf(k)) = 1)
            /\ SlotsOf(k) = {} <=> MultiPlan.save_args[k].aggregate

\* A tree with a leaf of each kind has been handed over.
C21_Witness ==
    /\ HandedToAggregate
    /\ \E k \in DOMAIN msave.item : SlotsOf(k) = {} /\ MultiPlan.ser_item[k] = msave.item[k]
    /\ \E k \in DOMAIN msave.item : Cardinality(SlotsOf(k)) = 1 /\ HoldsPlaceholder(k)


(***************************************************************************)
(* StandardCheckpointHandler.async_save.                                   *)
(***************************************************************************)
\* The async_save of the parent class was called.
Delegated == \E i \in 1..Len(events) : events[i].op = "super_async_save"

NothingWritten == ~disk.has_aggregate /\ disk.files = <<>> /\ disk.dirs = {}

\* The saved checkpoint holds the value of the leaf at k in its aggregate
\* file.
StoredAggregated(k) == disk.has_aggregate /\ ~leaf_is_placeholder(disk.aggregate[k])

\* The call is one the claim has rejected: no item, aggregate=True for one of
\* the keys in keys, or there a value of a type that is not supported.
RejectedOver(keys) ==
    \/ ~call.item.some
    \/ \E k \in keys :
          \/ saved.save_args[k].isargs /\ saved.save_args[k].aggregate
          \/ saved.item[k].kind \notin STANDARD_ARRAY_TYPES

\* The leaves that tree_map visits: not the empty containers, not None.
VisitedLeaves ==
    {k \in DOMAIN saved.item : ~is_supported_empty_aggregation_type(saved.item[k])}

\* C22: a StandardCheckpointHandler.async_save without item, with
\* aggregate=True for a leaf or with a leaf of unsupported type raises before
\* it calls the parent's async_save and writes nothing; a save that passed
\* the validation and was made stores no leaf in the aggregate file.
C22_StandardSave ==
    saved.done =>
        /\ RejectedOver(DOMAIN saved.item)
              => saved.error = "ValueError" /\ ~Delegated /\ NothingWritten
        /\ Delegated /\ saved.error = ""
              => \A k \in DOMAIN saved.item : ~StoredAggregated(k)

\* C22 amended: the same for the leaves other than empty containers and
\* None, which the validation does not visit; every leaf it visited is
\* written by a type handler at its own path.
C22_StandardSaveVisited ==
    saved.done =>
        /\ RejectedOver(VisitedLeaves)
              => saved.error = "ValueError" /\ ~Delegated /\ NothingWritten
        /\ ~RejectedOver(VisitedLeaves) => Delegated
        /\ Delegated /\ saved.error = ""
              => \A k \in VisitedLeaves :
                    /\ ~StoredAggregated(k)
                    /\ PathJoin(Directory, _param_name_from_keypath(k)) \in DOMAIN disk.files

\* A save of a leaf and an empty container has passed the validation and
\* was made.
C22_Witness ==
    /\ saved.done
    /\ Delegated
    /\ saved.error = ""
    /\ VisitedLeaves # {}
    /\ VisitedLeaves # DOMAIN saved.item


(***************************************************************************)
(* The parameters of a key that no rule reads.                             *)
(***************************************************************************)
\* _get_restore_parameters has returned in a call with transforms on a
\* saved checkpoint.
ParametersBuilt ==
    /\ OnSavedCheckpoint
    /\ call.item.some
    /\ call.transforms.some
    /\ work.param_infos # <<>>

\* A use_fallback rule of the call matches key k.
FallbackMatches(k) ==
    \E i \in 1..Len(call.transforms.v) :
        /\ call.transforms.v[i].transform.use_fallback
        /\ re_fullmatch(_keystr(call.transforms.v[i].key), _keystr(k)).matched

\* Saved key k is a key of the target item that no rule with a
\* multi_value_fn and no rename rule takes as its input.
InBothUnread(k) == k \in DOMAIN call.item.v /\ NoRuleReads(k)

SavedPlan == SavePlan(Directory, saved.item, saved.save_args)

\* The place of a key in the traversal of a tree.
Rank(k) == CHOOSE i \in 1..Len(TreeOrder) : TreeOrder[i] = k

\* requests hold the leaves of (param_infos, tree, args) that are not
\* skipped, each once, in the one request of its handler, its value, its
\* ParamInfo and its arguments at the same index, in traversal order.
GroupedRight(requests, param_infos, tree, args) ==
    LET live == {k \in DOMAIN param_infos :
                    param_infos[k].isinfo /\ ~param_infos[k].skip_deserialize}
    IN /\ \A k \in live :
             Cardinality({sl \in Slots(requests) : requests[sl[1]].keys[sl[2]] = k}) = 1
       /\ \A sl \in Slots(requests) :
             LET q == requests[sl[1]]
                 i == sl[2]
                 k == q.keys[i]
             IN /\ k \in live
                /\ q.values[i] = tree[k]
                /\ q.infos[i] = param_infos[k]
                /\ q.args[i] = args[k]
                /\ q.handler = IF IsRestoreArgs(args[k]) THEN RestoreHandler(args[k], tree[k])
                               ELSE get_type_handler(tree[k].kind)
       /\ \A r1 \in 1..Len(requests) : \A r2 \in 1..Len(requests) :
             r1 # r2 => requests[r1].handler # requests[r2].handler
       /\ \A r \in 1..Len(requests) :
             /\ Len(requests[r].values) = Len(requests[r].infos)
             /\ Len(requests[r].args) = Len(requests[r].infos)
             /\ \A i \in 1..Len(requests[r].keys) : \A j \in 1..Len(requests[r].keys) :
                   i < j => Rank(requests[r].keys[i]) < Rank(requests[r].keys[j])

\* The save that was made got as far as its batch requests.
SaveGrouped == saved.done /\ ~SavedPlan.empty_item /\ ~SavedPlan.unregistered

\* The running restore has built its batch requests.
RestoreGrouped == ncalls > 0 /\ work.batch_requests # <<>>

\* C24: the batch requests of a save, and those of a restore, hold every
\* leaf that is not skipped exactly once, in the request of its handler, and
\* no skipped leaf; there is one request per handler at most; value,
\* ParamInfo and arguments of a leaf sit at the same index; the leaves of a
\* request are in traversal order.
C24_BatchGrouping ==
    /\ SaveGrouped => GroupedRight(SavedPlan.batch_requests, SavedPlan.param_infos,
                                   saved.item, SavedPlan.save_args)
    /\ RestoreGrouped => GroupedRight(work.batch_requests, work.param_infos,
                                      work.structure, work.restore_args)

\* A restore has put two leaves into one request, on a checkpoint of two
\* individually stored leaves and an aggregated one.
C24_Witness ==
    /\ RestoreGrouped
    /\ SaveGrouped
    /\ \E r \in 1..Len(work.batch_requests) : Len(work.batch_requests[r].infos) = 2
    /\ \E r \in 1..Len(SavedPlan.batch_requests) : Len(SavedPlan.batch_requests[r].infos) = 2


(***************************************************************************)
(* The tree put together from the reads.                                   *)
(***************************************************************************)
\* _maybe_deserialize has returned in the running restore.
Reassembled == ncalls > 0 /\ work.restored # <<>>

\* The reassembled tree holds at k what was read for k: for a leaf given to
\* a type handler the value the handler returns for its ParamInfo, for
\* another one the value of the aggregate file.
ReassembledAt(k) ==
    IF work.param_infos[k].isinfo /\ ~work.param_infos[k].skip_deserialize
    THEN work.restored[k] = DeserializedValue(disk.files, work.param_infos[k],
                                              work.restore_args[k])
    ELSE work.restored[k] = _process_aggregated_value(work.param_infos[k],
                                                      work.structure[k],
                                                      work.restore_args[k])

\* C25: the tree that _maybe_deserialize returns holds at every key path of
\* the saved structure the value read for that key path: the value the type
\* handler returned for the leaf's ParamInfo, or the value of the aggregate
\* file for a leaf that is skipped; key paths with a "." in a segment
\* included.
C25_Reassembly == Reassembled => \A k \in DOMAIN work.structure : ReassembledAt(k)


(***************************************************************************)
(* The paths of the leaves of a save.                                      *)
(***************************************************************************)
\* C26: in a save no path is written by two slots of the batch requests: two
\* leaves at different key paths that are given to type handlers never have
\* the same ParamInfo path.
C26_UniquePaths ==
    SaveGrouped =>
        \A s1 \in Slots(SavedPlan.batch_requests) :
        \A s2 \in Slots(SavedPlan.batch_requests) :
            s1 # s2 => SerializedPath(SavedPlan.batch_requests, s1)
                          # SerializedPath(SavedPlan.batch_requests, s2)


(***************************************************************************)
(* C27: one byte limiter per restore call.                                 *)
(***************************************************************************)
\* The limiters the running call has made, by its log.
LimitersOfCall ==
    Cardinality({e \in 1..Len(events) : events[e].op = "create_byte_limiter"})

PastCreation ==
    ncalls > 0 /\ (pc \in {"structure", "get_restore_parameters", "maybe_deserialize",
                            "transform_structure"} \/ work.structure # <<>>)

\* The ParamInfo of the leaves that were handed to a type handler.
DispatchedInfos ==
    UNION {Range(work.batch_requests[r].infos) : r \in 1..Len(work.batch_requests)}
    \cup UNION {Range(events[e].infos) : e \in {e \in 1..Len(events) : events[e].op = "deserialize"}}

OneLimiterInCall ==
    /\ LimitersOfCall <= 1
    /\ limiters <= ncalls
    /\ work.byte_limiter \in {0, limiters}
    /\ PastCreation => LimitersOfCall = 1 /\ work.byte_limiter = limiters /\ limiters > 0
    /\ \A info \in DispatchedInfos : info.byte_limiter = work.byte_limiter

\* A call begins with no limiter, and the one it makes is new: its number is
\* above the number of every limiter made before.
FreshLimiter ==
    /\ ncalls' # ncalls => work'.byte_limiter = 0
    /\ limiters' # limiters =>
          /\ work.byte_limiter = 0
          /\ limiters' = limiters + 1
          /\ work'.byte_limiter = limiters'
    /\ work'.byte_limiter # work.byte_limiter =>
          work'.byte_limiter = 0 \/ work'.byte_limiter > limiters

\* C27: a restore call makes exactly one byte limiter, the ParamInfo of every
\* leaf handed to a type handler in the call holds that limiter, and the
\* limiter of a later call is a new one, never the limiter of an earlier call.
C27_OneLimiterPerCall == []OneLimiterInCall /\ [][FreshLimiter]_vars

\* The second call on a handler has handed leaves to a type handler under its
\* own limiter, the second the handler made.
C27_Witness ==
    /\ ncalls = 2
    /\ limiters = 2
    /\ work.byte_limiter = 2
    /\ DispatchedInfos # {}
    /\ call.transforms.some


(***************************************************************************)
(* C28: a ParamInfo without a path is never read.                          *)
(***************************************************************************)
\* The ParamInfo objects of a tree of them: an empty container holds none.
InfosOf(param_infos) == {param_infos[k] : k \in {k \in DOMAIN param_infos : param_infos[k].isinfo}}

RequestInfos(requests) == UNION {Range(requests[r].infos) : r \in 1..Len(requests)}

NullPathSkipped(param_infos, requests) ==
    /\ \A info \in InfosOf(param_infos) : info.path = NullPath => info.skip_deserialize
    /\ \A info \in RequestInfos(requests) : info.path # NullPath

\* C28: a ParamInfo built by a save or by a restore, with transforms or
\* without, that has no path has skip_deserialize set, and no ParamInfo in a
\* batch request is without a path.
C28_NullPathSkipped ==
    /\ saved.done => NullPathSkipped(SavedPlan.param_infos, SavedPlan.batch_requests)
    /\ ncalls > 0 => NullPathSkipped(work.param_infos, work.batch_requests)

\* A call with transforms has handed a leaf to a type handler while the
\* ParamInfo of another key, an aggregated one, has no path.
C28_Witness ==
    /\ ncalls > 0
    /\ call.transforms.some
    /\ work.batch_requests # <<>>
    /\ \E info \in InfosOf(work.param_infos) : info.path = NullPath /\ info.name # <<>>
    /\ \E k \in DOMAIN saved.item : SavedPlan.param_infos[k].skip_deserialize


(***************************************************************************)
(* C29: the ParamInfo of a save.                                           *)
(***************************************************************************)
SavedWithInfos == saved.done /\ DOMAIN saved.item # {}

\* The leaf's SaveArgs, the default taken when none were given.
SavedArgs(k) == _maybe_set_default_save_args(saved.item[k], saved.save_args[k])

OwnPath(k) == PathJoin(Directory, _param_name_from_keypath(k))

\* C29 as stated: the ParamInfo of a saved leaf has skip_deserialize equal to
\* the aggregate flag of the leaf's SaveArgs, no path when the leaf is
\* aggregated, and the path directory/name when it is not.
C29_SaveParamInfo ==
    SavedWithInfos =>
        \A k \in DOMAIN saved.item :
            /\ SavedPlan.param_infos[k].skip_deserialize = SavedArgs(k).aggregate
            /\ SavedPlan.param_infos[k].path =
                  IF SavedArgs(k).aggregate THEN NullPath ELSE OwnPath(k)

\* C29, amended: the ParamInfo of a saved leaf has skip_deserialize equal to
\* the aggregate flag of the leaf's SaveArgs and the path directory/name,
\* whether the leaf is aggregated or not.
C29_SaveParamInfoPath ==
    SavedWithInfos =>
        \A k \in DOMAIN saved.item :
            /\ SavedPlan.param_infos[k].skip_deserialize = SavedArgs(k).aggregate
            /\ SavedPlan.param_infos[k].path = OwnPath(k)
            /\ SavedPlan.param_infos[k].name = _param_name_from_keypath(k)

\* A save of an aggregated leaf next to an individually stored one.
C29_Witness ==
    /\ SavedWithInfos
    /\ saved.error = ""
    /\ \E k \in DOMAIN saved.item :
          SavedArgs(k).aggregate /\ SavedPlan.param_infos[k].path # NullPath
    /\ \E k \in DOMAIN saved.item : ~SavedArgs(k).aggregate


(***************************************************************************)
(* C30: one ParamInfo per leaf.                                            *)
(***************************************************************************)
RestoreParametersBuilt == ncalls > 0 /\ work.param_infos # <<>>

EmptyKeys == {k \in DOMAIN work.structure : work.structure[k].kind \in {"empty", "none"}}

SaveInfoPerLeaf ==
    SavedWithInfos =>
        /\ DOMAIN SavedPlan.param_infos = DOMAIN saved.item
        /\ \A k \in DOMAIN saved.item : SavedPlan.param_infos[k].isinfo

\* C30 as stated: a save maps every leaf of the item, and a restore every
\* key of the flattened saved structure, an empty container included, to one
\* ParamInfo and never to something that is not a ParamInfo.
C30_OneParamInfo ==
    /\ SaveInfoPerLeaf
    /\ RestoreParametersBuilt =>
          /\ DOMAIN work.param_infos = DOMAIN work.structure
          /\ \A k \in DOMAIN work.structure : work.param_infos[k].isinfo

\* C30, amended: a save maps every leaf of the item, an empty container
\* included, to one ParamInfo. A restore maps every key of the flattened
\* saved structure to one value: a ParamInfo when the saved leaf is not an
\* empty container, and for an empty container the container itself, not a
\* ParamInfo, unless the key is not read under the transforms and has
\* ParamInfo(skip_deserialize=True).
C30_OneParamInfoUnlessEmpty ==
    /\ SaveInfoPerLeaf
    /\ RestoreParametersBuilt =>
          /\ DOMAIN work.param_infos = DOMAIN work.structure
          /\ \A k \in DOMAIN work.structure \ EmptyKeys : work.param_infos[k].isinfo
          /\ \A k \in EmptyKeys :
                \/ work.param_infos[k] = EmptyInfo
                \/ call.transforms.some /\ work.param_infos[k] = SkipInfo

\* A restore with transforms has built its parameters for a checkpoint
\* with an empty container that is read and a leaf that is not one; the
\* save gave the empty container a ParamInfo.
C30_Witness ==
    /\ RestoreParametersBuilt
    /\ call.transforms.some
    /\ \E k \in EmptyKeys : work.param_infos[k] = EmptyInfo
    /\ \E k \in DOMAIN work.structure \ EmptyKeys : work.param_infos[k].isinfo
    /\ \E k \in DOMAIN saved.item : saved.item[k] = EmptyNode /\ SavedPlan.param_infos[k].isinfo

====
